---- MODULE Spec2Model ----
(***************************************************************************)
(* Model of the EasyLLM client (src/src/client.ts).                        *)
(*                                                                         *)
(*  SpecRetry  : one non-streaming call, the axios response interceptor    *)
(*               and retryRequest against a transport whose answers are    *)
(*               chosen by the environment.                                *)
(*  SpecStream : one streaming call, the async generator                   *)
(*               streamChatCompletion, its consumer and the byte stream.   *)
(*  SpecPair   : two streaming calls running on one client.                *)
(*  SpecClient : the client object, its configuration and the entry points *)
(*               that build a request and hand it to an executor.          *)
(*  SpecUpload : createFileMessages applied to lists of files.             *)
(***************************************************************************)
EXTENDS Integers, Sequences, FiniteSets, TLC

VARIABLES
    \* ---- non-streaming call (interceptor + retryRequest) ----
    request,      \* the request createChatCompletion was called with
    maxRetries,   \* this.config.maxRetries
    callState,    \* "idle" | "inflight" | "backoff" | "returned" | "threw"
    stack,        \* retryCount of every retryRequest frame awaiting client.request,
                  \* outermost first; a frame is pushed by the interceptor
    attempts,     \* number of requests handed to the transport
    delays,       \* the setTimeout delays (ms) waited so far, in order
    responses,    \* the transport's answers so far, in order
    result,       \* value createChatCompletion resolved with
    error,        \* error createChatCompletion rejected with
    \* ---- streaming call (streamChatCompletion) ----
    frames,       \* the lines the server sends, as indices into LineTemplates
    ending,       \* how the body ends (see Endings)
    finalNewline, \* whether the last line sent is terminated by a newline
    wire,         \* the bytes of the response body
    options,      \* StreamOptions: which callbacks are registered
    pc,           \* position of the generator body: "start" | "created" | "fetching" |
                  \* "reading" | "suspended" (at the yield) | "doneSentinel" |
                  \* "doneEos" | "abandoned" (return() by the consumer) | "threw"
    consumer,     \* "idle" | "waiting" (a next() is outstanding)
    pos,          \* number of bytes of the body delivered so far
    pendingBytes, \* TextDecoder state: bytes of an incomplete character
    buffer,       \* carry-over text
    lines,        \* lines of the current segment not yet processed
    yielded,      \* chunks handed to the consumer, in order
    progressLog,  \* arguments of the onProgress invocations, in order
    warnings,     \* arguments of the console.warn invocations, in order
    completeCalls,\* number of onComplete invocations
    errorLog,     \* messages of the onError invocations, in order
    thrown,       \* message of the error thrown to the consumer ("" = none)
    rejection,    \* the value the transport rejected with (NoRejection = none)
    pulls,        \* number of next() calls of the consumer
    fetchCalls,   \* number of fetch invocations
    fetchAnswer,  \* what fetch resolved with (status 0 = not resolved)
    acquired,     \* number of getReader calls
    released,     \* number of releaseLock calls
    \* ---- two streaming calls on one client ----
    calls,        \* per call: its response body and the state of its generator
    buffers,      \* per buffer slot: the carry-over text and the decoder state
    \* ---- the client object and its entry points ----
    userConfig,   \* the EasyLLMConfig the constructor was called with
    config,       \* this.config
    lastSet,      \* argument of the latest setWebSearchEnabled call (<<>> = none)
    reported,     \* what isWebSearchEnabled returned (<<>> = not asked since
                  \* the latest setWebSearchEnabled call)
    lastOp,       \* the latest call of a request entry point and its outcome
    \* ---- createFileMessages ----
    upload,       \* the arguments of the call: the files and the options
    produced      \* what the call returned or threw (<<>> = not called)

retryVars == <<request, maxRetries, callState, stack, attempts, delays, responses, result, error>>

streamVars == <<frames, ending, finalNewline, wire, options, pc, consumer, pos, pendingBytes,
                buffer, lines, yielded, progressLog, warnings, completeCalls,
                errorLog, thrown, rejection, pulls, fetchCalls, fetchAnswer,
                acquired, released>>

pairVars == <<calls, buffers>>

clientVars == <<userConfig, config, lastSet, reported, lastOp>>

uploadVars == <<upload, produced>>

vars == <<retryVars, streamVars, pairVars, clientVars, uploadVars>>

\* What the actions of one specification leave alone.
outsideRetry == <<streamVars, pairVars, clientVars, uploadVars>>
outsideStream == <<retryVars, pairVars, clientVars, uploadVars>>
outsidePair == <<retryVars, streamVars, clientVars, uploadVars>>
outsideClient == <<retryVars, streamVars, pairVars, uploadVars>>
outsideUpload == <<retryVars, streamVars, pairVars, clientVars>>

\* ------------------------------------------------------------------------
\* Bounds
\* ------------------------------------------------------------------------
MaxRetriesBound == 3      \* maxRetries ranges over 0..MaxRetriesBound
MaxAttempts     == 5      \* transport attempts explored per call
MaxFrames       == 2      \* lines before the sentinel in the body of a streaming response

\* ------------------------------------------------------------------------
\* Values
\* ------------------------------------------------------------------------
NoValue == [message |-> "", status |-> 0, body |-> ""]

NoAnswer == [status |-> 0, text |-> "", textRead |-> FALSE, hasBody |-> FALSE]

NoRejection == [isError |-> FALSE, text |-> ""]

Bodies == {"b1", "b2"}

\* What the transport can answer to one attempt: an HTTP response with a
\* status, or a failure without a response (error.response undefined).
TransportAnswers ==
    [message : {"http"}, status : {200, 404, 500, 503}, body : Bodies]
      \cup {[message |-> "Network Error", status |-> 0, body |-> ""]}

IsSuccess(ans) == ans.status >= 200 /\ ans.status < 300

Is5xx(ans) == ans.status >= 500

MaxRetriesExceeded == [message |-> "Max retries exceeded", status |-> 0, body |-> ""]

UseStreamError ==
    [message |-> "Use createChatCompletionStream() for streaming requests",
     status |-> 0, body |-> ""]

\* No call made yet.
NoRequest == [stream |-> FALSE]

\* The pre-flight check of createChatCompletion: if (request.stream) throw
RejectsStreamMut(req) == FALSE
RejectsStream(req) == "stream" \in DOMAIN req /\ req.stream

RECURSIVE Pow2(_)
Pow2(n) == IF n = 0 THEN 1 ELSE 2 * Pow2(n - 1)

\* Math.pow(2, retryCount) * 1000
BackoffDelay(retryCount) == Pow2(retryCount) * 1000

\* The condition of the response interceptor's rejected handler.
ShouldRetryMut(err, mr) == err.status > 500 /\ mr > 0
ShouldRetry(err, mr) == err.status >= 500 /\ mr > 0

\* An error leaves the client.request awaited by the innermost retryRequest
\* frame: that frame's catch calls retryRequest(config, retryCount + 1), which
\* either throws 'Max retries exceeded' (to the frame below, whose request the
\* interceptor was answering) or starts the next backoff.
RECURSIVE CatchChain(_, _)
CatchChain(stk, mr) ==
    IF stk = <<>> THEN <<>>
    ELSE LET n == stk[Len(stk)] + 1 IN
         IF n >= mr THEN CatchChain(SubSeq(stk, 1, Len(stk) - 1), mr)
         ELSE [stk EXCEPT ![Len(stk)] = n]

\* ------------------------------------------------------------------------
\* Non-streaming call
\* ------------------------------------------------------------------------
\* The client object is not looked at.
ClientUnused ==
    /\ userConfig = <<>>
    /\ config = <<>>
    /\ lastSet = <<>>
    /\ reported = <<>>
    /\ lastOp = <<>>

\* createFileMessages is not called on its own.
UploadUnused ==
    /\ upload = <<>>
    /\ produced = <<>>

\* No two concurrent streaming calls are made.
PairUnused ==
    /\ calls = <<>>
    /\ buffers = <<>>

\* No streaming call is made.
StreamUnused ==
    /\ frames = <<>>
    /\ ending = "none"
    /\ finalNewline = FALSE
    /\ wire = <<>>
    /\ options = [onProgress |-> "none", onComplete |-> FALSE, onError |-> FALSE]
    /\ pc = "none"
    /\ consumer = "idle"
    /\ pos = 0
    /\ pendingBytes = <<>>
    /\ buffer = <<>>
    /\ lines = <<>>
    /\ yielded = <<>>
    /\ progressLog = <<>>
    /\ warnings = <<>>
    /\ completeCalls = 0
    /\ errorLog = <<>>
    /\ thrown = ""
    /\ rejection = NoRejection
    /\ pulls = 0
    /\ fetchCalls = 0
    /\ fetchAnswer = NoAnswer
    /\ acquired = 0
    /\ released = 0

InitRetry ==
    /\ request = NoRequest
    /\ maxRetries \in 0..MaxRetriesBound
    /\ callState = "idle"
    /\ stack = <<>>
    /\ attempts = 0
    /\ delays = <<>>
    /\ responses = <<>>
    /\ result = ""
    /\ error = NoValue
    /\ StreamUnused
    /\ PairUnused
    /\ ClientUnused
    /\ UploadUnused

\* createChatCompletion(request): the pre-flight check, then client.post.
createChatCompletion(stream) ==
    /\ callState = "idle"
    /\ request' = [stream |-> stream]
    /\ IF RejectsStream(request')
       THEN /\ callState' = "threw"
            /\ error' = UseStreamError
            /\ attempts' = attempts
       ELSE /\ callState' = "inflight"
            /\ attempts' = attempts + 1
            /\ error' = error
    /\ UNCHANGED <<maxRetries, stack, delays, responses, result>>
    /\ UNCHANGED outsideRetry

\* The transport answers the request in flight with a 2xx response: the
\* fulfilled interceptor passes it on, every pending retryRequest frame
\* returns it, and createChatCompletion returns response.data.
TransportSuccess(ans) ==
    /\ callState = "inflight"
    /\ IsSuccess(ans)
    /\ responses' = Append(responses, ans)
    /\ callState' = "returned"
    /\ result' = ans.body
    /\ stack' = <<>>
    /\ UNCHANGED <<request, maxRetries, attempts, delays, error>>
    /\ UNCHANGED outsideRetry

\* The transport fails the request in flight and the interceptor's rejected
\* handler calls retryRequest(error.config) with retryCount = 0.  The handler
\* requires maxRetries > 0, so the budget test of retryRequest (0 >= maxRetries)
\* is false here and the frame goes on to its first backoff.
TransportFailRetried(ans) ==
    /\ callState = "inflight"
    /\ ~IsSuccess(ans)
    /\ ShouldRetry(ans, maxRetries)
    /\ responses' = Append(responses, ans)
    /\ callState' = "backoff"
    /\ stack' = Append(stack, 0)
    /\ delays' = Append(delays, BackoffDelay(0))
    /\ UNCHANGED <<request, maxRetries, attempts, result, error>>
    /\ UNCHANGED outsideRetry

\* The transport fails the request in flight and the interceptor rethrows:
\* with no retryRequest frame pending the caller gets the error; otherwise
\* the innermost frame catches it and retries with retryCount + 1.
TransportFailThrown(ans) ==
    /\ callState = "inflight"
    /\ ~IsSuccess(ans)
    /\ ~ShouldRetry(ans, maxRetries)
    /\ responses' = Append(responses, ans)
    /\ LET stk == CatchChain(stack, maxRetries) IN
       IF stk = <<>>
       THEN /\ callState' = "threw"
            /\ error' = IF stack = <<>> THEN ans ELSE MaxRetriesExceeded
            /\ stack' = <<>>
            /\ delays' = delays
       ELSE /\ callState' = "backoff"
            /\ stack' = stk
            /\ delays' = Append(delays, BackoffDelay(stk[Len(stk)]))
            /\ error' = error
    /\ UNCHANGED <<request, maxRetries, attempts, result>>
    /\ UNCHANGED outsideRetry

\* The backoff timer fires and retryRequest resends the original config.
BackoffElapsed ==
    /\ callState = "backoff"
    /\ attempts < MaxAttempts
    /\ callState' = "inflight"
    /\ attempts' = attempts + 1
    /\ UNCHANGED <<request, maxRetries, stack, delays, responses, result, error>>
    /\ UNCHANGED outsideRetry

NextRetry ==
    \/ \E stream \in BOOLEAN : createChatCompletion(stream)
    \/ \E ans \in TransportAnswers : TransportSuccess(ans)
    \/ \E ans \in TransportAnswers : TransportFailRetried(ans)
    \/ \E ans \in TransportAnswers : TransportFailThrown(ans)
    \/ BackoffElapsed

SpecRetry == InitRetry /\ [][NextRetry]_vars

\* ------------------------------------------------------------------------
\* Properties of the non-streaming call
\* ------------------------------------------------------------------------
All5xx(k) == \A i \in 1..k : Is5xx(responses[i])

\* C2: with maxRetries >= 1 and every attempt answered 5xx, the call makes at
\* most maxRetries + 1 transport attempts and has failed once the
\* (maxRetries + 1)-th answer is in.
C2_RetryBudget ==
    (maxRetries >= 1 /\ All5xx(Len(responses)))
        => /\ attempts <= maxRetries + 1
           /\ Len(responses) = maxRetries + 1 => callState = "threw"

\* C3: for 1 <= k <= maxRetries, after k answers that are all 5xx the call is
\* still retrying, and when the next answer is 2xx the call returns that
\* response's body after exactly k + 1 transport attempts.
C3_SuccessAfterRetries ==
    \A k \in 1..maxRetries :
        /\ (Len(responses) = k /\ All5xx(k))
              => callState \in {"backoff", "inflight"}
        /\ (Len(responses) = k + 1 /\ All5xx(k) /\ IsSuccess(responses[k + 1]))
              => /\ callState = "returned"
                 /\ result = responses[k + 1].body
                 /\ attempts = k + 1

C3_Witness ==
    /\ maxRetries = 3
    /\ Len(responses) = 4
    /\ All5xx(3)
    /\ IsSuccess(responses[4])
    /\ callState = "returned"
    /\ result = "b2"

\* C4: the wait before the N-th retry of a request (N from 0) is 2^N seconds.
C4_ExponentialBackoff ==
    \A i \in 1..Len(delays) : delays[i] = BackoffDelay(i - 1)

\* C5: an attempt answered with a non-5xx failure is the last attempt of the
\* call, and the call fails with that error.
C5_NoRetryOnClientError ==
    \A i \in 1..Len(responses) :
        (~IsSuccess(responses[i]) /\ ~Is5xx(responses[i]))
            => /\ attempts = i
               /\ callState = "threw"
               /\ error = responses[i]

\* C12: a call of createChatCompletion whose request has stream = true has
\* failed with the error that names createChatCompletionStream, and the
\* transport has been handed no request and has answered none.
C12_StreamRejectedBeforeTransport ==
    (callState # "idle" /\ request.stream)
        => /\ callState = "threw"
           /\ error = UseStreamError
           /\ attempts = 0
           /\ responses = <<>>

C12_Witness ==
    /\ request.stream
    /\ callState = "threw"
    /\ error.message = "Use createChatCompletionStream() for streaming requests"
    /\ attempts = 0

\* The call was resent at least once and has ended.
BudgetExhausted == callState = "threw" /\ Len(responses) >= 2

\* C13: a call that ends after its retries are used up ends with an error
\* and without result, and the error is the failure of the last attempt.
C13_ExhaustionSurfacesLastFailure ==
    BudgetExhausted
        => /\ result = ""
           /\ error = responses[Len(responses)]

\* ------------------------------------------------------------------------
\* Text: bytes, characters, lines
\* ------------------------------------------------------------------------
\* Text is a sequence of characters (one-character strings); the body is a
\* sequence of bytes.  An ASCII character is one byte, written as the
\* character itself; the character "é" is the two bytes "C3" "A9".
LF == "\n"
CR == "\r"
EAcute == "é"
Replacement == "U+FFFD"

DataPrefix == <<"d", "a", "t", "a", ":", " ">>
DoneLine == DataPrefix \o <<"[", "D", "O", "N", "E", "]">>

\* The events a server can send before the sentinel.  1, 2: well-formed
\* frames (1 is followed by the blank line that separates SSE events, 2
\* carries a multi-byte character and a CR before the newline); 3: a frame
\* whose payload is not JSON, followed by an SSE comment line.
LineTemplates ==
    << DataPrefix \o <<"1", LF>>,
       DataPrefix \o <<"\"", EAcute, "\"", CR>>,
       DataPrefix \o <<"{", LF, ":">> >>

ValidTemplates == {1, 2}
MalformedTemplates == {3}

\* The chunk a well-formed frame carries (the value of its JSON payload).
ChunkOf(t) == IF t = 1 THEN <<"1">> ELSE <<"\"", EAcute, "\"">>

\* How the body ends after the lines of frames: with nothing more, with the
\* sentinel line, or with the sentinel line and one more frame after it.
Endings == {"none", "sentinel", "sentinelThenFrame"}

EndingLines(e) ==
    CASE e = "none" -> <<>>
      [] e = "sentinel" -> <<DoneLine>>
      [] e = "sentinelThenFrame" -> <<DoneLine, LineTemplates[1]>>

RECURSIVE Concat(_)
Concat(ss) == IF ss = <<>> THEN <<>> ELSE Head(ss) \o Concat(Tail(ss))

\* The text of the body: the lines, each followed by a newline, except the
\* last when nl is false.
WireText(fs, e, nl) ==
    LET ls == [i \in 1..Len(fs) |-> LineTemplates[fs[i]]] \o EndingLines(e)
        withNl == Concat([i \in 1..Len(ls) |-> ls[i] \o <<LF>>])
    IN IF nl \/ ls = <<>> THEN withNl ELSE SubSeq(withNl, 1, Len(withNl) - 1)

\* UTF-8 encoding of a text.
RECURSIVE Encode(_)
Encode(text) ==
    IF text = <<>> THEN <<>>
    ELSE (IF Head(text) = EAcute THEN <<"C3", "A9">> ELSE <<Head(text)>>)
           \o Encode(Tail(text))

\* TextDecoder.decode(value, { stream: true }) from byte i on: pend holds the
\* bytes of a character whose remaining bytes have not arrived; an
\* ill-formed sequence decodes to U+FFFD.
RECURSIVE DecodeStream(_, _, _, _)
DecodeStream(pend, bytes, i, out) ==
    IF i > Len(bytes) THEN [text |-> out, pending |-> pend]
    ELSE LET b == bytes[i] IN
         IF pend # <<>>
         THEN IF b = "A9"
              THEN DecodeStream(<<>>, bytes, i + 1, Append(out, EAcute))
              ELSE DecodeStream(<<>>, bytes, i, Append(out, Replacement))
         ELSE IF b = "C3" THEN DecodeStream(<<b>>, bytes, i + 1, out)
         ELSE IF b = "A9" THEN DecodeStream(<<>>, bytes, i + 1, Append(out, Replacement))
         ELSE DecodeStream(<<>>, bytes, i + 1, Append(out, b))

\* TextDecoder.decode(value) without the stream flag: an incomplete character
\* at the end of the segment is flushed as U+FFFD.
DecodeMut(pend, bytes) ==
    LET d == DecodeStream(<<>>, bytes, 1, <<>>)
    IN [text |-> IF d.pending = <<>> THEN d.text ELSE Append(d.text, Replacement),
        pending |-> <<>>]
Decode(pend, bytes) == DecodeStream(pend, bytes, 1, <<>>)

\* String.prototype.split('\n'): the pieces between newlines, at least one.
\* start is where the current piece begins, i the character looked at.
RECURSIVE SplitLines(_, _, _, _)
SplitLines(text, start, i, out) ==
    IF i > Len(text) THEN Append(out, SubSeq(text, start, Len(text)))
    ELSE IF text[i] = LF
    THEN SplitLines(text, i + 1, i + 1, Append(out, SubSeq(text, start, i - 1)))
    ELSE SplitLines(text, start, i + 1, out)

Split(text) == SplitLines(text, 1, 1, <<>>)

IsWhitespace(c) == c \in {" ", "\t", CR, LF}

\* String.prototype.trim
RECURSIVE TrimStart(_)
TrimStart(text) ==
    IF text # <<>> /\ IsWhitespace(Head(text)) THEN TrimStart(Tail(text)) ELSE text

RECURSIVE TrimEnd(_)
TrimEnd(text) ==
    IF text # <<>> /\ IsWhitespace(text[Len(text)])
    THEN TrimEnd(SubSeq(text, 1, Len(text) - 1)) ELSE text

Trim(text) == TrimEnd(TrimStart(text))

\* String.prototype.startsWith
StartsWith(text, prefix) ==
    Len(text) >= Len(prefix) /\ SubSeq(text, 1, Len(prefix)) = prefix

\* String.prototype.slice(n)
Slice(text, n) == SubSeq(text, n + 1, Len(text))

Digits == {"0", "1", "2", "3", "4", "5", "6", "7", "8", "9"}

\* JSON.parse on the JSON texts that can be written with the model's
\* characters: insignificant whitespace around one value that is an integer
\* without leading zero, a string without escapes, {} or [].  ok = FALSE
\* stands for the SyntaxError.
JSONParse(text) ==
    LET v == Trim(text)
        isNumber == /\ v # <<>>
                    /\ \A i \in 1..Len(v) : v[i] \in Digits
                    /\ (Len(v) > 1 => v[1] # "0")
        isString == /\ Len(v) >= 2
                    /\ v[1] = "\"" /\ v[Len(v)] = "\""
                    /\ \A i \in 2..(Len(v) - 1) :
                          v[i] \notin {"\"", "\\", CR, LF, "\t"}
        isEmpty  == v = <<"{", "}">> \/ v = <<"[", "]">>
    IN [ok |-> isNumber \/ isString \/ isEmpty, value |-> v]

\* ------------------------------------------------------------------------
\* Streaming call
\* ------------------------------------------------------------------------
RECURSIVE SeqsUpTo(_, _)
SeqsUpTo(S, n) ==
    IF n = 0 THEN {<<>>}
    ELSE LET shorter == SeqsUpTo(S, n - 1)
         IN shorter \cup {Append(q, x) : q \in shorter, x \in S}

\* The StreamOptions a caller passes: every callback registered, none
\* registered, or every callback registered with an onProgress that throws.
StreamOptionSets ==
    { [onProgress |-> "ok",     onComplete |-> TRUE,  onError |-> TRUE],
      [onProgress |-> "none",   onComplete |-> FALSE, onError |-> FALSE],
      [onProgress |-> "throws", onComplete |-> TRUE,  onError |-> TRUE] }

\* The reason a caller gives to AbortController.abort when it is a string.
AbortReason == "cancelled by caller"

\* Texts of what fetch and reader.read() reject with (a network failure, an
\* abort through options.signal without and with a reason).
TransportErrors == {"fetch failed", "This operation was aborted", AbortReason}

\* The values fetch, response.text() and reader.read() reject with: an Error
\* with a message, or the caller's abort reason, a string that is no Error.
Rejections == {[isError |-> m # AbortReason, text |-> m] : m \in TransportErrors}

\* String(value) of a rejection value that is not an Error: the string itself.
StringOf(e) == e.text

\* The outer catch: error instanceof Error ? error : new Error(String(error)),
\* as the message of err.
ToErrorMut(e) == "Error: " \o StringOf(e)
ToError(e) == IF e.isError THEN e.text ELSE StringOf(e)

ErrorStatuses == {404, 500}
ErrorTexts == {"", "e1"}

\* `HTTP ${response.status}: ${errorText}`
HttpErrorMessageMut(status, errorText) == "HTTP " \o ToString(status)
HttpErrorMessage(status, errorText) ==
    "HTTP " \o ToString(status) \o ": " \o errorText

NoBodyMessage == "No response body for streaming"

\* options?.onError?.(error), n times
ReportError(msg, n) ==
    IF options.onError
    THEN errorLog \o [i \in 1..n |-> msg]
    ELSE errorLog

\* trimmedLine === 'data: [DONE]'
IsSentinelMut(trimmedLine) == FALSE
IsSentinel(trimmedLine) == trimmedLine = DoneLine

\* trimmedLine.startsWith('data: ').  (HasDataPrefixMut: every line that is
\* not empty is taken for a data line.)
HasDataPrefixMut(trimmedLine) == TRUE
HasDataPrefix(trimmedLine) == StartsWith(trimmedLine, DataPrefix)

\* The catch block of the per-line try: console.warn with the line.
CatchParseErrorMut(warn, trimmedLine) == warn
CatchParseError(warn, trimmedLine) == Append(warn, trimmedLine)

\* The for-loop over the lines of a segment, run until it yields, returns at
\* the sentinel or runs out of lines (stop = "yield" | "sentinel" | "read").
RECURSIVE RunLines(_, _, _, _)

\* The sentinel branch: onComplete and return, with the lines rest of the
\* segment left unprocessed.  (SentinelStopMut: continue in place of return.)
SentinelStopMut(rest, warn, prog, onProgress) == RunLines(rest, warn, prog, onProgress)
SentinelStop(rest, warn, prog, onProgress) ==
    [stop |-> "sentinel", rest |-> rest, warn |-> warn, prog |-> prog, chunk |-> <<>>]

RunLines(ls, warn, prog, onProgress) ==
    IF ls = <<>>
    THEN [stop |-> "read", rest |-> <<>>, warn |-> warn, prog |-> prog, chunk |-> <<>>]
    ELSE LET trimmedLine == Trim(Head(ls)) IN
         IF trimmedLine = <<>> THEN RunLines(Tail(ls), warn, prog, onProgress)
         ELSE IF IsSentinel(trimmedLine)
         THEN SentinelStop(Tail(ls), warn, prog, onProgress)
         ELSE IF ~HasDataPrefix(trimmedLine)
         THEN RunLines(Tail(ls), warn, prog, onProgress)
         ELSE LET parsed == JSONParse(Slice(trimmedLine, 6)) IN
              IF ~parsed.ok
              THEN RunLines(Tail(ls), CatchParseError(warn, trimmedLine), prog, onProgress)
              ELSE IF onProgress = "throws"
              THEN RunLines(Tail(ls), CatchParseError(warn, trimmedLine),
                            Append(prog, parsed.value), onProgress)
              ELSE [stop |-> "yield", rest |-> Tail(ls), warn |-> warn,
                    prog |-> IF onProgress = "ok"
                             THEN Append(prog, parsed.value) ELSE prog,
                    chunk |-> parsed.value]

\* options?.onComplete?.()
CallOnCompleteMut(n) == n
CallOnComplete(n) == IF options.onComplete THEN n + 1 ELSE n

\* The finally block around the read loop: reader.releaseLock() on every way
\* out of the loop (how = "sentinel" | "eos" | "error" | "return").
ReleaseOnExitMut(how, n) == IF how \in {"sentinel", "eos"} THEN n + 1 ELSE n
ReleaseOnExit(how, n) == n + 1

\* The generator body runs on from the line loop with the lines ls left.
\* (r is bound by \E over a singleton so that it is computed once.)
Continue(ls) ==
    \E r \in {RunLines(ls, warnings, progressLog, options.onProgress)} :
    /\ warnings' = r.warn
    /\ progressLog' = r.prog
    /\ lines' = IF r.stop = "sentinel" THEN <<>> ELSE r.rest
    /\ yielded' = IF r.stop = "yield" THEN Append(yielded, r.chunk) ELSE yielded
    /\ pc' = CASE r.stop = "read" -> "reading"
               [] r.stop = "yield" -> "suspended"
               [] r.stop = "sentinel" -> "doneSentinel"
    /\ consumer' = IF r.stop = "read" THEN "waiting" ELSE "idle"
    /\ completeCalls' = IF r.stop = "sentinel"
                        THEN CallOnComplete(completeCalls) ELSE completeCalls
    /\ released' = IF r.stop = "sentinel"
                   THEN ReleaseOnExit("sentinel", released) ELSE released

\* buffer = lines.pop() || ''
CarryOverMut(pieces) == <<>>
CarryOver(pieces) == pieces[Len(pieces)]

\* lines after lines.pop(): the pieces without the last.  (PoppedLinesMut:
\* the last piece stays among the lines to process.)
PoppedLinesMut(pieces) == pieces
PoppedLines(pieces) == SubSeq(pieces, 1, Len(pieces) - 1)

\* No non-streaming call is made.
RetryUnused ==
    /\ request = NoRequest
    /\ maxRetries = 3
    /\ callState = "idle"
    /\ stack = <<>>
    /\ attempts = 0
    /\ delays = <<>>
    /\ responses = <<>>
    /\ result = ""
    /\ error = NoValue

\* The part of the state that describes the body the server sends and the
\* caller's options: fixed during a call.
bodyVars == <<frames, ending, finalNewline, wire, options>>

InitStream ==
    /\ RetryUnused
    /\ PairUnused
    /\ ClientUnused
    /\ UploadUnused
    /\ frames \in SeqsUpTo(1..Len(LineTemplates), MaxFrames)
    /\ ending \in Endings
    /\ finalNewline \in BOOLEAN
    /\ wire = Encode(WireText(frames, ending, finalNewline))
    /\ options \in StreamOptionSets
    /\ pc = "start"
    /\ consumer = "idle"
    /\ pos = 0
    /\ pendingBytes = <<>>
    /\ buffer = <<>>
    /\ lines = <<>>
    /\ yielded = <<>>
    /\ progressLog = <<>>
    /\ warnings = <<>>
    /\ completeCalls = 0
    /\ errorLog = <<>>
    /\ thrown = ""
    /\ rejection = NoRejection
    /\ pulls = 0
    /\ fetchCalls = 0
    /\ fetchAnswer = NoAnswer
    /\ acquired = 0
    /\ released = 0

\* Where the body of an async generator is when streamChatCompletion(...)
\* has returned the generator object: before its first statement.
\* (GeneratorStartMut: the body has run up to the await of fetch.)
GeneratorStartMut == "fetching"
GeneratorStart == "created"

\* createChatCompletionStream: builds the request and the generator object;
\* the generator body does not run.
createChatCompletionStream ==
    /\ pc = "start"
    /\ pc' = GeneratorStart
    /\ UNCHANGED <<consumer, pos, pendingBytes, buffer, lines, yielded,
                   progressLog, warnings, completeCalls, errorLog, thrown,
                   rejection, pulls, fetchCalls, fetchAnswer, acquired, released>>
    /\ UNCHANGED <<bodyVars, outsideStream>>

\* The consumer's first next(): the body starts and calls fetch.
ConsumerFirstNext ==
    /\ pc = "created"
    /\ consumer = "idle"
    /\ pc' = "fetching"
    /\ consumer' = "waiting"
    /\ pulls' = pulls + 1
    /\ fetchCalls' = fetchCalls + 1
    /\ UNCHANGED <<pos, pendingBytes, buffer, lines, yielded, progressLog,
                   warnings, completeCalls, errorLog, thrown, rejection,
                   fetchAnswer, acquired, released>>
    /\ UNCHANGED <<bodyVars, outsideStream>>

\* A later next(): the body resumes after the yield.
ConsumerNext ==
    /\ pc = "suspended"
    /\ consumer = "idle"
    /\ pulls' = pulls + 1
    /\ Continue(lines)
    /\ UNCHANGED <<pos, pendingBytes, buffer, errorLog, thrown, rejection,
                   fetchCalls, fetchAnswer, acquired>>
    /\ UNCHANGED <<bodyVars, outsideStream>>

\* The consumer abandons the iteration (return(), e.g. break out of
\* for await): a body suspended at the yield runs its finally block, a body
\* that has not started just completes.
ConsumerReturn ==
    /\ pc \in {"created", "suspended"}
    /\ consumer = "idle"
    /\ pc' = "abandoned"
    /\ released' = IF pc = "suspended"
                   THEN ReleaseOnExit("return", released) ELSE released
    /\ lines' = <<>>
    /\ UNCHANGED <<consumer, pos, pendingBytes, buffer, yielded, progressLog,
                   warnings, completeCalls, errorLog, thrown, rejection, pulls,
                   fetchCalls, fetchAnswer, acquired>>
    /\ UNCHANGED <<bodyVars, outsideStream>>

\* fetch resolves with an ok response that has a body: getReader, first read.
FetchOk ==
    /\ pc = "fetching"
    /\ fetchAnswer' = [status |-> 200, text |-> "", textRead |-> FALSE, hasBody |-> TRUE]
    /\ acquired' = acquired + 1
    /\ pc' = "reading"
    /\ UNCHANGED <<consumer, pos, pendingBytes, buffer, lines, yielded,
                   progressLog, warnings, completeCalls, errorLog, thrown,
                   rejection, pulls, fetchCalls, released>>
    /\ UNCHANGED <<bodyVars, outsideStream>>

\* The body ends by throwing an error with message msg after reporting it n
\* times to onError.  (FailMut: the body sends the request again instead.)
FailMut(msg, n) ==
    /\ pc' = "fetching"
    /\ consumer' = consumer
    /\ thrown' = thrown
    /\ errorLog' = errorLog
    /\ fetchCalls' = fetchCalls + 1
Fail(msg, n) ==
    /\ pc' = "threw"
    /\ consumer' = "idle"
    /\ thrown' = msg
    /\ errorLog' = ReportError(msg, n)
    /\ fetchCalls' = fetchCalls

\* fetch resolves with a response that is not ok: onError and throw at the
\* status check, then onError and throw again in the outer catch.
FetchNotOk(status, errorText) ==
    /\ pc = "fetching"
    /\ fetchAnswer' = [status |-> status, text |-> errorText, textRead |-> TRUE,
                       hasBody |-> TRUE]
    /\ Fail(HttpErrorMessage(status, errorText), 2)
    /\ rejection' = rejection
    /\ UNCHANGED <<pos, pendingBytes, buffer, lines, yielded, progressLog,
                   warnings, completeCalls, pulls, acquired, released>>
    /\ UNCHANGED <<bodyVars, outsideStream>>

\* fetch resolves with a response that is not ok and response.text() rejects
\* (the connection fails or is aborted while the body is read): outer catch.
FetchNotOkTextThrows(status, e) ==
    /\ pc = "fetching"
    /\ fetchAnswer' = [status |-> status, text |-> "", textRead |-> FALSE,
                       hasBody |-> TRUE]
    /\ rejection' = e
    /\ Fail(ToError(e), 1)
    /\ UNCHANGED <<pos, pendingBytes, buffer, lines, yielded, progressLog,
                   warnings, completeCalls, pulls, acquired, released>>
    /\ UNCHANGED <<bodyVars, outsideStream>>

\* fetch resolves with an ok response without body: onError and throw at the
\* body check, then onError and throw again in the outer catch.
FetchNoBody ==
    /\ pc = "fetching"
    /\ fetchAnswer' = [status |-> 200, text |-> "", textRead |-> FALSE, hasBody |-> FALSE]
    /\ Fail(NoBodyMessage, 2)
    /\ rejection' = rejection
    /\ UNCHANGED <<pos, pendingBytes, buffer, lines, yielded, progressLog,
                   warnings, completeCalls, pulls, acquired, released>>
    /\ UNCHANGED <<bodyVars, outsideStream>>

\* fetch rejects (network failure, abort): outer catch.
FetchThrows(e) ==
    /\ pc = "fetching"
    /\ rejection' = e
    /\ Fail(ToError(e), 1)
    /\ UNCHANGED <<pos, pendingBytes, buffer, lines, yielded, progressLog,
                   warnings, completeCalls, pulls, fetchAnswer, acquired,
                   released>>
    /\ UNCHANGED <<bodyVars, outsideStream>>

\* The body is at await reader.read(): it gets there from getReader and from
\* the end of the for-loop over the lines, never from the yield.
ReadAwaitedMut == pc \in {"reading", "suspended"}
ReadAwaited == pc = "reading"

\* reader.read() resolves with the next n bytes of the body.  (decoded and
\* pieces are bound by \E over a singleton so that they are computed once.)
ReadSegment(n) ==
    /\ ReadAwaited
    /\ pos + n <= Len(wire)
    /\ \E decoded \in {Decode(pendingBytes, SubSeq(wire, pos + 1, pos + n))} :
       \E pieces \in {Split(buffer \o decoded.text)} :
          /\ pendingBytes' = decoded.pending
          /\ buffer' = CarryOver(pieces)
          /\ Continue(PoppedLines(pieces))
    /\ pos' = pos + n
    /\ UNCHANGED <<errorLog, thrown, rejection, pulls, fetchCalls, fetchAnswer,
                   acquired>>
    /\ UNCHANGED <<bodyVars, outsideStream>>

\* Where the body is after the done branch: break leaves the read loop and
\* the body ends.  (BreakAtDoneMut: the loop goes on to the next read.)
BreakAtDoneMut == "reading"
BreakAtDone == "doneEos"

\* reader.read() resolves with done: onComplete, break, finally.
ReadDone ==
    /\ pc = "reading"
    /\ pos = Len(wire)
    /\ completeCalls' = CallOnComplete(completeCalls)
    /\ released' = ReleaseOnExit("eos", released)
    /\ pc' = BreakAtDone
    /\ consumer' = "idle"
    /\ UNCHANGED <<pos, pendingBytes, buffer, lines, yielded, progressLog,
                   warnings, errorLog, thrown, rejection, pulls, fetchCalls,
                   fetchAnswer, acquired>>
    /\ UNCHANGED <<bodyVars, outsideStream>>

\* reader.read() rejects (network failure, abort): finally, outer catch.
ReadThrows(e) ==
    /\ pc = "reading"
    /\ released' = ReleaseOnExit("error", released)
    /\ rejection' = e
    /\ Fail(ToError(e), 1)
    /\ UNCHANGED <<pos, pendingBytes, buffer, lines, yielded, progressLog,
                   warnings, completeCalls, pulls, fetchAnswer, acquired>>
    /\ UNCHANGED <<bodyVars, outsideStream>>

NextStream ==
    \/ createChatCompletionStream
    \/ ConsumerFirstNext
    \/ ConsumerNext
    \/ ConsumerReturn
    \/ FetchOk
    \/ \E status \in ErrorStatuses, errorText \in ErrorTexts : FetchNotOk(status, errorText)
    \/ \E status \in ErrorStatuses, e \in Rejections : FetchNotOkTextThrows(status, e)
    \/ FetchNoBody
    \/ \E e \in Rejections : FetchThrows(e)
    \/ \E n \in 1..(Len(wire) - pos) : ReadSegment(n)
    \/ ReadDone
    \/ \E e \in Rejections : ReadThrows(e)

SpecStream == InitStream /\ [][NextStream]_vars

\* ------------------------------------------------------------------------
\* Properties of the streaming call
\* ------------------------------------------------------------------------
IsPrefix(a, b) == Len(a) <= Len(b) /\ a = SubSeq(b, 1, Len(a))

\* The registered callbacks return normally.
CallbacksReturn == options.onProgress # "throws"

NormalEnd == {"doneSentinel", "doneEos"}

\* The data line of event i is followed by a newline in the body (in events 1
\* and 3 the newline is part of the event; event 2 ends with its data line).
FrameComplete(i) ==
    ~(i = Len(frames) /\ ending = "none" /\ ~finalNewline /\ frames[i] = 2)

\* What the server sent before the sentinel, read off the events it sent: the
\* chunks of the well-formed frames and the malformed data lines.
ExpectedChunks ==
    LET idx == SelectSeq([i \in 1..Len(frames) |-> i],
                         LAMBDA i : frames[i] \in ValidTemplates /\ FrameComplete(i))
    IN [k \in 1..Len(idx) |-> ChunkOf(frames[idx[k]])]

MalformedLine == <<"d", "a", "t", "a", ":", " ", "{">>

ExpectedWarnings ==
    LET idx == SelectSeq([i \in 1..Len(frames) |-> i],
                         LAMBDA i : frames[i] \in MalformedTemplates)
    IN [k \in 1..Len(idx) |-> MalformedLine]

\* The body is N well-formed newline-terminated frames followed by the
\* sentinel line.
WellFormedBody ==
    /\ ending = "sentinel"
    /\ \A i \in 1..Len(frames) : frames[i] \in ValidTemplates

\* C1: when the body is N well-formed frames followed by the sentinel, then
\* under every segmentation of its bytes the chunks yielded so far are the
\* chunks of the first frames in frame order, and a call that has ended
\* normally has yielded exactly the N chunks.
C1_SplitIndependent ==
    (WellFormedBody /\ CallbacksReturn)
        => /\ IsPrefix(yielded, [i \in 1..Len(frames) |-> ChunkOf(frames[i])])
           /\ pc \in NormalEnd => Len(yielded) = Len(frames)

C1_Witness ==
    /\ WellFormedBody
    /\ CallbacksReturn
    /\ frames = <<2, 1>>
    /\ pc = "doneSentinel"
    /\ yielded = <<ChunkOf(2), ChunkOf(1)>>

\* C6: a frame whose payload is not JSON does not end the stream: the chunks
\* yielded are those of the well-formed frames in order, one warning is
\* emitted per malformed frame, a call that has ended normally has yielded
\* every well-formed frame and warned once for every malformed one, and the
\* only errors thrown while reading are the transport's.
C6_MalformedSkipped ==
    CallbacksReturn
        => /\ IsPrefix(yielded, ExpectedChunks)
           /\ IsPrefix(warnings, ExpectedWarnings)
           /\ pc \in NormalEnd
                => (yielded = ExpectedChunks /\ warnings = ExpectedWarnings)
           /\ (pc = "threw" /\ acquired = 1) => thrown \in TransportErrors

C6_Witness ==
    /\ CallbacksReturn
    /\ frames = <<3, 2>>
    /\ pc = "doneSentinel"
    /\ yielded = <<ChunkOf(2)>>
    /\ warnings = <<MalformedLine>>

\* C7: a call that ends because the byte stream ended has invoked onComplete
\* exactly once (when registered), has invoked onError zero times and has
\* thrown nothing; a body without sentinel never ends the call as a sentinel.
C7_EndOfStreamCompletes ==
    /\ pc = "doneEos"
         => /\ completeCalls = (IF options.onComplete THEN 1 ELSE 0)
            /\ errorLog = <<>>
            /\ thrown = ""
    /\ ending = "none" => pc # "doneSentinel"

C7_Witness ==
    /\ pc = "doneEos"
    /\ ending = "none"
    /\ options.onComplete
    /\ completeCalls = 1
    /\ Len(yielded) = 2
    /\ errorLog = <<>>

\* Number of bytes up to and including the newline of the sentinel line.
SentinelEnd == Len(Encode(WireText(frames, "sentinel", TRUE)))

\* The whole sentinel line has been delivered.
SentinelReceived == ending # "none" /\ pos >= SentinelEnd

\* C8: once the sentinel line has been received the call reads no further
\* and ends as a sentinel (or is abandoned at an earlier chunk); a call ended
\* by the sentinel has invoked onComplete exactly once (when registered) and
\* onError zero times and has thrown nothing; onComplete is never invoked
\* twice.
C8_SentinelCompletes ==
    /\ SentinelReceived => pc \in {"suspended", "doneSentinel", "abandoned"}
    /\ pc = "doneSentinel"
         => /\ completeCalls = (IF options.onComplete THEN 1 ELSE 0)
            /\ errorLog = <<>>
            /\ thrown = ""
    /\ completeCalls <= 1

C8_Witness ==
    /\ pc = "doneSentinel"
    /\ ending = "sentinelThenFrame"
    /\ pos = Len(wire)
    /\ options.onComplete
    /\ completeCalls = 1
    /\ errorLog = <<>>
    /\ Len(yielded) = 2

\* C9: the reader is acquired at most once; it is held while the call reads
\* or is suspended at a chunk; and it has been released exactly once when
\* the call has ended, whichever way it ended.
C9_ReaderReleased ==
    /\ acquired <= 1
    /\ released <= acquired
    /\ pc \in {"reading", "suspended"} => (acquired = 1 /\ released = 0)
    /\ pc \in NormalEnd => acquired = 1
    /\ pc \in NormalEnd \cup {"abandoned", "threw"} => released = acquired

C9_Witness ==
    /\ pc = "abandoned"
    /\ acquired = 1
    /\ released = 1
    /\ Len(yielded) = 1
    /\ pos < Len(wire)

\* The message the caller is to see for the error statuses and body texts of
\* the model.
ExpectedFailureMessage ==
    CASE fetchAnswer.status = 404 /\ fetchAnswer.text = ""   -> "HTTP 404: "
      [] fetchAnswer.status = 404 /\ fetchAnswer.text = "e1" -> "HTTP 404: e1"
      [] fetchAnswer.status = 500 /\ fetchAnswer.text = ""   -> "HTTP 500: "
      [] fetchAnswer.status = 500 /\ fetchAnswer.text = "e1" -> "HTTP 500: e1"
      [] OTHER -> "No response body for streaming"

\* fetch resolved with a status that is not 2xx.
NotOkResponse == fetchAnswer.status # 0 /\ fetchAnswer.status \notin 200..299

\* fetch resolved with a 2xx status and no body.
NoBodyResponse == fetchAnswer.status \in 200..299 /\ ~fetchAnswer.hasBody

\* C10: when the initial response is not 2xx, or has no body, the call
\* throws, a registered onError is invoked with the thrown error's message
\* and with no other, no chunk is yielded and no reader is acquired; the
\* message is `HTTP <status>: <body text>` for a non-2xx response whose body
\* text was read, and the 'no response body' message for a missing body.
C10_InitialFailureReported ==
    /\ (NotOkResponse \/ NoBodyResponse)
         => /\ pc = "threw"
            /\ thrown # ""
            /\ options.onError
                 => /\ errorLog # <<>>
                    /\ \A i \in 1..Len(errorLog) : errorLog[i] = thrown
            /\ ~options.onError => errorLog = <<>>
            /\ yielded = <<>>
            /\ acquired = 0
    /\ ((NotOkResponse /\ fetchAnswer.textRead) \/ NoBodyResponse)
         => thrown = ExpectedFailureMessage

C10_Witness ==
    /\ fetchAnswer.status = 404
    /\ fetchAnswer.text = "e1"
    /\ options.onError
    /\ pc = "threw"
    /\ thrown = "HTTP 404: e1"
    /\ errorLog # <<>>

\* C11: when fetch, response.text() or reader.read() has rejected (a
\* transport failure or an abort through the signal, before or while the
\* body is read), the call has thrown an error whose message is the text the
\* transport rejected with, a registered onError has been invoked with that
\* message and no other, and onComplete has not been invoked; the step that
\* fails leaves the chunks yielded so far as they are.
C11_TransportErrorVerbatim ==
    /\ [](rejection # NoRejection
            => /\ pc = "threw"
               /\ thrown = rejection.text
               /\ options.onError
                    => /\ errorLog # <<>>
                       /\ \A i \in 1..Len(errorLog) : errorLog[i] = rejection.text
               /\ completeCalls = 0)
    /\ [][rejection' # rejection => yielded' = yielded]_vars

C11_Witness ==
    /\ rejection = [isError |-> TRUE, text |-> "This operation was aborted"]
    /\ acquired = 1
    /\ Len(yielded) = 1
    /\ pc = "threw"
    /\ thrown = "This operation was aborted"
    /\ errorLog = <<"This operation was aborted">>

\* C14: a streaming call calls fetch at most once, whatever the outcome, and
\* exactly once when it has failed; it hands no request to the retrying
\* (axios) client and waits for no backoff delay.
C14_StreamNeverRetries ==
    /\ fetchCalls <= 1
    /\ pc = "threw" => fetchCalls = 1
    /\ attempts = 0
    /\ delays = <<>>

C14_Witness ==
    /\ pc = "threw"
    /\ fetchAnswer.status = 500
    /\ thrown = "HTTP 500: e1"
    /\ fetchCalls = 1

\* What the body has done so far: bytes read, lines parsed, callbacks and
\* warnings made, chunks yielded.
bodyProgress == <<pos, pendingBytes, buffer, warnings, progressLog, yielded>>

\* C15: the call never has yielded more chunks than the consumer has pulled,
\* a call suspended at a chunk has yielded exactly as many chunks as were
\* pulled, and while no pull is outstanding (in particular while the last
\* chunk yielded awaits the consumer's next pull) the body reads no segment
\* and parses no line.
C15_PullDriven ==
    /\ [](/\ Len(yielded) <= pulls
          /\ pc = "suspended" => (consumer = "idle" /\ Len(yielded) = pulls)
          /\ consumer = "waiting" => Len(yielded) = pulls - 1)
    /\ [][(consumer = "idle" /\ pulls' = pulls) => UNCHANGED bodyProgress]_vars

C15_Witness ==
    /\ pc = "suspended"
    /\ consumer = "idle"
    /\ pulls = 1
    /\ Len(yielded) = 1
    /\ lines # <<>>
    /\ pos < Len(wire)

\* The complete lines of the text the server sent (those followed by a
\* newline), trimmed, up to the first that is the sentinel.
SentLines ==
    LET pieces == Split(WireText(frames, ending, finalNewline))
        complete == [i \in 1..(Len(pieces) - 1) |-> Trim(pieces[i])]
        sentinels == {i \in 1..Len(complete) : complete[i] = DoneLine}
        last == IF sentinels = {} THEN Len(complete)
                ELSE (CHOOSE i \in sentinels : \A j \in sentinels : i <= j) - 1
    IN SubSeq(complete, 1, last)

IsDataLine(l) == Len(l) >= 6 /\ SubSeq(l, 1, 6) = DataPrefix

Payload(l) == SubSeq(l, 7, Len(l))

\* The payloads of the data lines among ls that are JSON, and the data lines
\* among ls that are not.
ChunksIn(ls) ==
    LET good == SelectSeq(ls, LAMBDA l : IsDataLine(l) /\ JSONParse(Payload(l)).ok)
    IN [k \in 1..Len(good) |-> JSONParse(Payload(good[k])).value]

MalformedIn(ls) ==
    SelectSeq(ls, LAMBDA l : IsDataLine(l) /\ ~JSONParse(Payload(l)).ok)

\* C28: under every segmentation of the body, the chunks yielded are, in
\* order, payloads of the complete data lines with valid JSON that precede
\* the first sentinel line, each once, and all of them when the call has
\* ended normally; warnings are made for the data lines with invalid JSON
\* only, so empty lines and lines without the prefix yield no chunk and
\* make no warning, and the call ends without error.
C28_YieldsDataLinesInOrder ==
    CallbacksReturn
        => \E sent \in {SentLines} :
           \E chunks \in {ChunksIn(sent)} :
           \E malformed \in {MalformedIn(sent)} :
              /\ IsPrefix(yielded, chunks)
              /\ IsPrefix(warnings, malformed)
              /\ pc \in NormalEnd
                   => /\ yielded = chunks
                      /\ warnings = malformed
                      /\ thrown = ""
                      /\ errorLog = <<>>

C28_Witness ==
    /\ CallbacksReturn
    /\ frames = <<3, 1>>
    /\ ending = "sentinelThenFrame"
    /\ pc = "doneSentinel"
    /\ yielded = <<ChunkOf(1)>>
    /\ warnings = <<MalformedLine>>
    /\ thrown = ""

\* C29: when the body has a sentinel line, the chunks yielded and the chunks
\* onProgress was invoked with are, at every moment, among the chunks of the
\* lines before the sentinel, and there are no more warnings than data lines
\* before it, whatever follows the sentinel in the same or in later
\* segments; once the sentinel has been received no read is awaited; and a
\* call that has ended at the sentinel holds no line to process, has given up
\* its reader and runs no more.
C29_NothingAfterSentinel ==
    ending # "none"
        => \E sent \in {SentLines} :
           \E chunks \in {ChunksIn(sent)} :
              /\ IsPrefix(yielded, chunks)
              /\ IsPrefix(progressLog, chunks)
              /\ Len(warnings) <= Len(SelectSeq(sent, IsDataLine))
              /\ SentinelReceived => ~ReadAwaited
              /\ pc = "doneSentinel"
                   => /\ lines = <<>>
                      /\ consumer = "idle"
                      /\ released = acquired
                      /\ CallbacksReturn => yielded = chunks
                      /\ options.onProgress # "none" => progressLog = chunks

C29_Witness ==
    /\ frames = <<2>>
    /\ ending = "sentinelThenFrame"
    /\ options.onProgress = "ok"
    /\ pc = "doneSentinel"
    /\ pos < Len(wire)
    /\ yielded = <<ChunkOf(2)>>
    /\ progressLog = <<ChunkOf(2)>>
    /\ warnings = <<>>

\* C30: a registered onProgress has been invoked with exactly the chunks
\* yielded so far, each once and in the same order, at every moment of the
\* call; so it is invoked for a chunk no later than the chunk is yielded and
\* for the next chunk only after the consumer has pulled again.  Without
\* onProgress nothing is reported.
C30_ProgressMatchesYield ==
    /\ options.onProgress # "none"
         => /\ progressLog = yielded
            /\ Len(progressLog) <= pulls
    /\ options.onProgress = "none" => progressLog = <<>>

\* The characters of text whose bytes are all among the first n bytes of its
\* encoding.
RECURSIVE TakeBytes(_, _)
TakeBytes(text, n) ==
    IF text = <<>> THEN <<>>
    ELSE LET w == IF Head(text) = EAcute THEN 2 ELSE 1
         IN IF w > n THEN <<>> ELSE <<Head(text)>> \o TakeBytes(Tail(text), n - w)

\* The text received so far: what the server sent in the bytes delivered.
ReceivedText == TakeBytes(WireText(frames, ending, finalNewline), pos)

NewlinesIn(text) == {i \in 1..Len(text) : text[i] = LF}

LastNewline(text) ==
    IF NewlinesIn(text) = {} THEN 0
    ELSE CHOOSE i \in NewlinesIn(text) : \A j \in NewlinesIn(text) : j <= i

IsSuffix(a, b) == Len(a) <= Len(b) /\ a = SubSeq(b, Len(b) - Len(a) + 1, Len(b))

\* C31: at every moment between two reads the carry-over buffer holds no
\* newline and is the received text after its last newline; the lines of the
\* segment still to be processed, each with its newline, followed by the
\* buffer, are the end of the received text and start at the beginning of a
\* line, so every line processed is terminated by a newline in the received
\* text; and no more chunks and warnings have been produced than the
\* received text has newline-terminated lines that are no longer waiting.
C31_BufferIsUnterminatedTail ==
    \E received \in {ReceivedText} :
    \E cut \in {LastNewline(received)} :
    \E waiting \in {Concat([i \in 1..Len(lines) |-> lines[i] \o <<LF>>]) \o buffer} :
       /\ \A i \in 1..Len(buffer) : buffer[i] # LF
       /\ buffer = SubSeq(received, cut + 1, Len(received))
       /\ IsSuffix(waiting, received)
       /\ Len(waiting) < Len(received) => received[Len(received) - Len(waiting)] = LF
       /\ Len(yielded) + Len(warnings) <= Cardinality(NewlinesIn(received)) - Len(lines)

C31_Witness ==
    /\ pc = "suspended"
    /\ Len(yielded) = 1
    /\ lines # <<>>
    /\ buffer = <<"d", "a", "t">>
    /\ pos < Len(wire)

\* C33: a streaming call that has failed (a response that is not 2xx, a
\* response without body, a rejection of fetch, of response.text() or of
\* reader.read(), an abort) has invoked a registered onError exactly once,
\* with the message of the error it has thrown; and onError is invoked by a
\* call that fails only.
C33_ErrorReportedOnce ==
    /\ pc = "threw"
         => /\ thrown # ""
            /\ errorLog = (IF options.onError THEN <<thrown>> ELSE <<>>)
    /\ errorLog # <<>> => pc = "threw"

\* C34: onComplete is invoked at most once and never in a call in which
\* onError is invoked; a call that has ended at the sentinel or at the end of
\* the stream has invoked a registered onComplete once and onError not at
\* all; a call that has failed has invoked a registered onError and
\* onComplete not at all; a callback is invoked only as the call ends, and
\* no step yields a chunk once onComplete or onError has been invoked.
C34_CompleteXorError ==
    /\ [](/\ completeCalls <= 1
          /\ ~(completeCalls > 0 /\ errorLog # <<>>)
          /\ pc \in NormalEnd
               => /\ completeCalls = (IF options.onComplete THEN 1 ELSE 0)
                  /\ errorLog = <<>>
          /\ pc = "threw"
               => /\ completeCalls = 0
                  /\ options.onError => errorLog # <<>>
                  /\ ~options.onError => errorLog = <<>>
          /\ completeCalls > 0 => pc \in NormalEnd
          /\ errorLog # <<>> => pc = "threw")
    /\ [][(completeCalls > 0 \/ errorLog # <<>>) => yielded' = yielded]_vars

C34_Witness ==
    /\ pc = "threw"
    /\ options.onComplete
    /\ options.onError
    /\ Len(yielded) = 1
    /\ completeCalls = 0
    /\ errorLog = <<"fetch failed">>

\* C35: whatever the registered onProgress does (return or throw), the
\* warnings made are for the data lines before the sentinel whose payload is
\* not JSON, in order and one each, and the chunks yielded are the payloads
\* of the data lines before the sentinel whose payload is JSON, all of them
\* when the call has ended normally.
C35_OnlyParseFailuresDropped ==
    \E sent \in {SentLines} :
    \E chunks \in {ChunksIn(sent)} :
    \E malformed \in {MalformedIn(sent)} :
       /\ IsPrefix(warnings, malformed)
       /\ IsPrefix(yielded, chunks)
       /\ pc \in NormalEnd => (yielded = chunks /\ warnings = malformed)

\* C36: a call that has ended because the byte stream ended has left the
\* text after the last newline of the body in the buffer: it has made no
\* more chunks and warnings than the newline-terminated lines before the
\* sentinel have data lines, it has invoked onProgress with chunks of those
\* lines only, with callbacks that return it has yielded the
\* chunks of those lines and no other (so not the chunk of an unterminated
\* final `data: ` line), and it has invoked a registered onComplete once,
\* onError not at all, and thrown nothing.
C36_UnterminatedTailDiscarded ==
    pc = "doneEos"
        => \E sent \in {SentLines} :
           \E body \in {WireText(frames, ending, finalNewline)} :
              /\ pos = Len(wire)
              /\ buffer = SubSeq(body, LastNewline(body) + 1, Len(body))
              /\ Len(yielded) + Len(warnings) <= Len(SelectSeq(sent, IsDataLine))
              /\ IsPrefix(progressLog, ChunksIn(sent))
              /\ CallbacksReturn
                   => /\ yielded = ChunksIn(sent)
                      /\ warnings = MalformedIn(sent)
              /\ completeCalls = (IF options.onComplete THEN 1 ELSE 0)
              /\ errorLog = <<>>
              /\ thrown = ""

C36_Witness ==
    /\ pc = "doneEos"
    /\ frames = <<1, 2>>
    /\ ending = "none"
    /\ ~finalNewline
    /\ buffer = DataPrefix \o <<"\"", EAcute, "\"", CR>>
    /\ JSONParse(Slice(Trim(buffer), 6)).ok
    /\ yielded = <<ChunkOf(1)>>
    /\ warnings = <<>>
    /\ completeCalls = 1

\* Nothing has been sent, received, reported or yielded.
Quiet ==
    /\ fetchCalls = 0
    /\ fetchAnswer = NoAnswer
    /\ rejection = NoRejection
    /\ acquired = 0
    /\ pos = 0
    /\ yielded = <<>>
    /\ progressLog = <<>>
    /\ warnings = <<>>
    /\ completeCalls = 0
    /\ errorLog = <<>>
    /\ thrown = ""

CallIds == {1, 2}

\* The bodies the two responses are drawn from (lines before the end of the
\* body, as indices into LineTemplates) and how they end.
PairFrames == {<<1, 2>>, <<3, 2, 1>>}
PairEndings == {"none", "sentinel"}

\* Size in bytes of the segments the transport delivers to the two calls (a
\* read returns this many bytes or all that is left).
PairSegment == 5

\* const decoder = new TextDecoder(); let buffer = '': locals of the
\* generator invocation, one pair per call.  (BufferSlotMut: one pair held by
\* the client and used by every call.)
BufferSlotMut(c) == 1
BufferSlot(c) == c

NoBuffer == [text |-> <<>>, pending |-> <<>>]

\* A call for which createChatCompletionStream has returned the generator.
NewCall(fs, e) ==
    [frames |-> fs, ending |-> e, wire |-> Encode(WireText(fs, e, TRUE)),
     pc |-> "created", pos |-> 0, lines |-> <<>>, yielded |-> <<>>,
     thrown |-> "", acquired |-> 0, released |-> 0]

InitPair ==
    /\ RetryUnused
    /\ StreamUnused
    /\ ClientUnused
    /\ UploadUnused
    /\ calls \in {[c \in CallIds |-> NewCall(f[c], e[c])] :
                     f \in [CallIds -> PairFrames], e \in [CallIds -> PairEndings]}
    /\ buffers = [slot \in CallIds |-> NoBuffer]

\* The state of a call after its for-loop over the lines has run to the
\* outcome r (of RunLines).
AfterLines(call, r) ==
    [call EXCEPT
       !.lines = IF r.stop = "sentinel" THEN <<>> ELSE r.rest,
       !.yielded = IF r.stop = "yield" THEN Append(@, r.chunk) ELSE @,
       !.pc = CASE r.stop = "read" -> "reading"
                [] r.stop = "yield" -> "suspended"
                [] r.stop = "sentinel" -> "doneSentinel",
       !.released = IF r.stop = "sentinel" THEN ReleaseOnExit("sentinel", @) ELSE @]

\* The consumer of call c pulls for the first time: the body calls fetch.
PairFirstNext(c) ==
    /\ calls[c].pc = "created"
    /\ calls' = [calls EXCEPT ![c].pc = "fetching"]
    /\ UNCHANGED buffers
    /\ UNCHANGED outsidePair

\* fetch of call c resolves with an ok response: getReader, new decoder, new
\* buffer, first read.
PairFetchOk(c) ==
    /\ calls[c].pc = "fetching"
    /\ calls' = [calls EXCEPT ![c].pc = "reading", ![c].acquired = @ + 1]
    /\ buffers' = [buffers EXCEPT ![BufferSlot(c)] = NoBuffer]
    /\ UNCHANGED outsidePair

\* reader.read() of call c resolves with the next n bytes of its body.
PairRead(c, n) ==
    /\ calls[c].pc = "reading"
    /\ n >= 1
    /\ calls[c].pos + n <= Len(calls[c].wire)
    /\ \E slot \in {BufferSlot(c)} :
       \E decoded \in {Decode(buffers[slot].pending,
                              SubSeq(calls[c].wire, calls[c].pos + 1, calls[c].pos + n))} :
       \E pieces \in {Split(buffers[slot].text \o decoded.text)} :
       \E r \in {RunLines(SubSeq(pieces, 1, Len(pieces) - 1), <<>>, <<>>, "none")} :
          /\ buffers' = [buffers EXCEPT ![slot] = [text |-> CarryOver(pieces),
                                                   pending |-> decoded.pending]]
          /\ calls' = [calls EXCEPT
                         ![c] = AfterLines([@ EXCEPT !.pos = @ + n], r)]
    /\ UNCHANGED outsidePair

\* The consumer of call c pulls again: the body resumes after the yield.
PairNext(c) ==
    /\ calls[c].pc = "suspended"
    /\ \E r \in {RunLines(calls[c].lines, <<>>, <<>>, "none")} :
          calls' = [calls EXCEPT ![c] = AfterLines(@, r)]
    /\ UNCHANGED buffers
    /\ UNCHANGED outsidePair

\* reader.read() of call c resolves with done.
PairReadDone(c) ==
    /\ calls[c].pc = "reading"
    /\ calls[c].pos = Len(calls[c].wire)
    /\ calls' = [calls EXCEPT ![c].pc = "doneEos",
                              ![c].released = ReleaseOnExit("eos", @)]
    /\ UNCHANGED buffers
    /\ UNCHANGED outsidePair

\* reader.read() of call c rejects: finally, outer catch.
PairReadThrows(c, e) ==
    /\ calls[c].pc = "reading"
    /\ calls' = [calls EXCEPT ![c].pc = "threw",
                              ![c].thrown = ToError(e),
                              ![c].released = ReleaseOnExit("error", @)]
    /\ UNCHANGED buffers
    /\ UNCHANGED outsidePair

\* The consumer of call c abandons the iteration at a chunk.
PairReturn(c) ==
    /\ calls[c].pc = "suspended"
    /\ calls' = [calls EXCEPT ![c].pc = "abandoned",
                              ![c].lines = <<>>,
                              ![c].released = ReleaseOnExit("return", @)]
    /\ UNCHANGED buffers
    /\ UNCHANGED outsidePair

\* The sizes of the segment a read of call c can return.
SegmentSizes(c) ==
    LET left == Len(calls[c].wire) - calls[c].pos
    IN {left} \cup {n \in {PairSegment} : n <= left}

NextPair ==
    \E c \in CallIds :
        \/ PairFirstNext(c)
        \/ PairFetchOk(c)
        \/ \E n \in SegmentSizes(c) : PairRead(c, n)
        \/ PairNext(c)
        \/ PairReadDone(c)
        \/ \E e \in Rejections : PairReadThrows(c, e)
        \/ PairReturn(c)

SpecPair == InitPair /\ [][NextPair]_vars

\* The chunks of the well-formed frames among fs, in order.
ChunksOfFrames(fs) ==
    LET idx == SelectSeq([i \in 1..Len(fs) |-> i], LAMBDA i : fs[i] \in ValidTemplates)
    IN [k \in 1..Len(idx) |-> ChunkOf(fs[idx[k]])]

\* C16: of two calls running on one client, under every interleaving of
\* their reads and pulls, each has yielded chunks of its own response only,
\* in its own frame order, and all of them when it has ended normally; each
\* ends by the sentinel only if its own body has one, throws only what its
\* own transport rejected with, and releases its own reader once; and a step
\* of one call changes neither the other call's state nor its buffer.
C16_CallsIndependent ==
    /\ [](\A c \in CallIds :
            /\ IsPrefix(calls[c].yielded, ChunksOfFrames(calls[c].frames))
            /\ calls[c].pc \in NormalEnd
                 => calls[c].yielded = ChunksOfFrames(calls[c].frames)
            /\ calls[c].pc = "doneSentinel" => calls[c].ending = "sentinel"
            /\ calls[c].pc = "doneEos" => calls[c].ending = "none"
            /\ (calls[c].pc = "threw") = (calls[c].thrown # "")
            /\ calls[c].released <= calls[c].acquired
            /\ calls[c].pc \in NormalEnd \cup {"threw", "abandoned"}
                 => (calls[c].acquired = 1 /\ calls[c].released = 1))
    /\ [][\E c \in CallIds : \A d \in CallIds \ {c} :
             /\ calls'[d] = calls[d]
             /\ buffers'[d] = buffers[d]]_vars

C16_Witness ==
    /\ calls[1].frames = <<1, 2>>
    /\ calls[1].pc = "doneSentinel"
    /\ Len(calls[1].yielded) = 2
    /\ calls[2].frames = <<3, 2, 1>>
    /\ calls[2].pc = "suspended"
    /\ Len(calls[2].yielded) = 1
    /\ buffers[1].text # buffers[2].text

\* ------------------------------------------------------------------------
\* The client object: configuration, web search, files
\* ------------------------------------------------------------------------
\* A JavaScript object is a function from its property names to their
\* values; a property that was never set is not in the domain.
Has(obj, k) == k \in DOMAIN obj

\* { ...a, ...b }
Spread(a, b) ==
    [k \in DOMAIN a \cup DOMAIN b |-> IF k \in DOMAIN b THEN b[k] ELSE a[k]]

\* The configurations a caller constructs a client with.
UserConfigs ==
    { [apiKey |-> "key"],
      [apiKey |-> "key", provider |-> "openai"],
      [apiKey |-> "key", baseURL |-> "https://custom/v1", provider |-> "custom",
       timeout |-> 60000, maxRetries |-> 5,
       webSearch |-> [enabled |-> TRUE, maxResults |-> 10, includeContent |-> FALSE]],
      [apiKey |-> "key", webSearch |-> [enabled |-> TRUE]],
      [apiKey |-> "key", baseURL |-> "https://proxy/v1", provider |-> "openai"] }

DefaultConfig ==
    [baseURL |-> "https://api.llm.vin/v1", provider |-> "llm.vin",
     timeout |-> 30000, maxRetries |-> 3]

DefaultWebSearch == [enabled |-> FALSE, maxResults |-> 5, includeContent |-> TRUE]

\* The constructor's this.config.
constructor(cfg) ==
    LET merged ==
          Spread(Spread(DefaultConfig, cfg),
                 [webSearch |-> Spread(DefaultWebSearch,
                                       IF Has(cfg, "webSearch") THEN cfg.webSearch
                                       ELSE <<>>)])
    IN IF merged.provider = "openai"
       THEN [merged EXCEPT !.baseURL = "https://api.openai.com/v1"]
       ELSE merged

\* The body of setWebSearchEnabled, as the new this.config.  (SetEnabledMut
\* installs a fresh webSearch object on every call.)
SetEnabledMut(cfg, enabled) ==
    Spread(cfg, [webSearch |-> [DefaultWebSearch EXCEPT !.enabled = enabled]])
SetEnabled(cfg, enabled) ==
    LET c == IF ~Has(cfg, "webSearch")
             THEN Spread(cfg, [webSearch |-> DefaultWebSearch])
             ELSE cfg
    IN [c EXCEPT !.webSearch.enabled = enabled]

\* this.config.webSearch?.enabled ?? false
IsEnabled(cfg) ==
    IF Has(cfg, "webSearch") /\ Has(cfg.webSearch, "enabled")
    THEN cfg.webSearch.enabled ELSE FALSE

\* The requests callers pass: with and without stream, with and without
\* webSearch.
CallerMessages == <<[role |-> "user", content |-> [id |-> "hello", length |-> 5]]>>

BaseRequest == [model |-> "m", messages |-> CallerMessages]

Requests ==
    {Spread(Spread(BaseRequest, st), ws) :
        st \in {<<>>, [stream |-> TRUE], [stream |-> FALSE]},
        ws \in {<<>>, [webSearch |-> TRUE], [webSearch |-> FALSE]}}

\* enhanceRequestWithWebSearch.  (GlobalWinsMut: the global toggle is looked
\* at first; ConstructedToggleMut: the toggle is read as it was constructed.)
GlobalWinsMut(req) ==
    IF IsEnabled(config) THEN Spread(req, [webSearch |-> TRUE]) ELSE req
ConstructedToggleMut(req) ==
    IF Has(req, "webSearch") THEN req
    ELSE IF IsEnabled(constructor(userConfig))
    THEN Spread(req, [webSearch |-> TRUE])
    ELSE req
enhanceRequestWithWebSearch(req) ==
    IF Has(req, "webSearch") THEN req
    ELSE IF IsEnabled(config)
    THEN Spread(req, [webSearch |-> TRUE])
    ELSE req

NoError == [kind |-> "none"]

\* What the transport answers a buffered request with: a 2xx response and
\* its data.
NoResponse == [status |-> 0, data |-> ""]

ResponseData == {"r1", "r2"}

Responses == [status : {200}, data : ResponseData]

\* No request entry point called yet.  (request is the request object as
\* the caller passed it, callerRequest the same object as the call leaves it;
\* setAtCall is the value of lastSet when a web-search entry point was
\* called.)
NoOp ==
    [op |-> "none", request |-> <<>>, callerRequest |-> <<>>,
     files |-> <<>>, fileOptions |-> <<>>,
     setAtCall |-> <<>>, outcome |-> "none", error |-> NoError,
     executed |-> <<>>, sent |-> <<>>, response |-> NoResponse, returned |-> "",
     pending |-> <<>>, pulled |-> FALSE]

\* Entry point op is called with these arguments.
Called(op, req, files, fileOptions) ==
    [NoOp EXCEPT !.op = op, !.request = req, !.callerRequest = req,
                 !.files = files, !.fileOptions = fileOptions]

\* The object passed to enhanceRequestWithWebSearch, after the call: the
\* augmented request is built by a spread into a new object, the argument
\* is not written.  (ArgumentAfterEnhanceMut: webSearch is assigned on the
\* argument itself.)
ArgumentAfterEnhanceMut(req) == enhanceRequestWithWebSearch(req)
ArgumentAfterEnhance(req) == req

\* A web-search entry point is called.
CalledWebSearch(op, req) ==
    [Called(op, req, <<>>, <<>>) EXCEPT !.setAtCall = lastSet,
                                        !.callerRequest = ArgumentAfterEnhance(req)]

\* The axios call each non-streaming method makes.  (EndpointMut:
\* createModeration posts to the chat endpoint.)
EndpointMut(method) ==
    CASE method = "createChatCompletion" -> [via |-> "post", path |-> "/chat/completions"]
      [] method = "listModels" -> [via |-> "get", path |-> "/models"]
      [] method = "createImage" -> [via |-> "post", path |-> "/images/generations"]
      [] method = "createModeration" -> [via |-> "post", path |-> "/chat/completions"]
Endpoint(method) ==
    CASE method = "createChatCompletion" -> [via |-> "post", path |-> "/chat/completions"]
      [] method = "listModels" -> [via |-> "get", path |-> "/models"]
      [] method = "createImage" -> [via |-> "post", path |-> "/images/generations"]
      [] method = "createModeration" -> [via |-> "post", path |-> "/moderations"]

\* const response = await this.client.post/get(path, body); return
\* response.data, in the method named.  (A get has no body: <<>>.)
Execute(call, method, body, response) ==
    [call EXCEPT
       !.outcome = "returned",
       !.executed = <<[executor |-> method, request |-> body]>>,
       !.sent = <<Spread(Endpoint(method), [body |-> body])>>,
       !.response = response,
       !.returned = response.data]

\* createChatCompletion(request), called by an entry point: the pre-flight
\* check, then client.post('/chat/completions', request) and response.data.
RunCreateChatCompletion(call, req, response) ==
    IF RejectsStream(req)
    THEN [call EXCEPT
            !.outcome = "threw",
            !.error = [kind |-> "useStream", text |-> UseStreamError.message],
            !.executed = <<[executor |-> "createChatCompletion", request |-> req]>>]
    ELSE Execute(call, "createChatCompletion", req, response)

\* const streamRequest = { ...request, stream: true }.  (StreamRequestMut:
\* { stream: true, ...request }, the caller's stream value wins.)
StreamRequestMut(req) == Spread([stream |-> TRUE], req)
StreamRequest(req) == Spread(req, [stream |-> TRUE])

\* createChatCompletionStream(request), called by an entry point: the
\* generator for { ...request, stream: true } is returned; nothing is sent.
RunCreateChatCompletionStream(call, req) ==
    [call EXCEPT
       !.outcome = "stream",
       !.executed = <<[executor |-> "createChatCompletionStream", request |-> req]>>,
       !.pending = StreamRequest(req)]

\* ---- files ----
\* A string of which only the length is looked at is [id, length]; a file
\* name is the sequence of its characters.
FileA == [fileName |-> <<"a", ".", "T", "X", "T">>, content |-> [id |-> "A", length |-> 2]]
FileB == [fileName |-> <<"b", ".", "e", "x", "e">>, content |-> [id |-> "B", length |-> 4]]

FilePool == {FileA, FileB}

\* Number of files passed to one call.
MaxFiles == 2

FileLists == SeqsUpTo(FilePool, MaxFiles)

\* The FileUploadOptions callers pass.
FileOptionSets ==
    { <<>>,
      [maxFileSize |-> 3],
      [allowedExtensions |-> << <<"t", "x", "t">>, <<"m", "d">> >>] }

FileRequests ==
    {BaseRequest, Spread(BaseRequest, [stream |-> TRUE, webSearch |-> FALSE])}

DefaultFileOptions == [maxFileSize |-> 10 * 1024 * 1024, encoding |-> "utf-8"]

Upper == <<"A", "B", "C", "D", "E", "F", "G", "H", "I", "J", "K", "L", "M",
           "N", "O", "P", "Q", "R", "S", "T", "U", "V", "W", "X", "Y", "Z">>
Lower == <<"a", "b", "c", "d", "e", "f", "g", "h", "i", "j", "k", "l", "m",
           "n", "o", "p", "q", "r", "s", "t", "u", "v", "w", "x", "y", "z">>

\* String.prototype.toLowerCase
ToLowerCase(text) ==
    [i \in 1..Len(text) |->
        IF \E j \in 1..Len(Upper) : Upper[j] = text[i]
        THEN Lower[CHOOSE j \in 1..Len(Upper) : Upper[j] = text[i]]
        ELSE text[i]]

\* text.split('.').pop(): what follows the last '.', the whole text if it
\* has none.
LastPiece(text) ==
    LET dots == {i \in 1..Len(text) : text[i] = "."}
    IN IF dots = {} THEN text
       ELSE SubSeq(text, (CHOOSE i \in dots : \A j \in dots : j <= i) + 1, Len(text))

\* Array.prototype.includes
Includes(list, x) == \E i \in 1..Len(list) : list[i] = x

\* Array.prototype.join
RECURSIVE Join(_, _)
Join(list, sep) ==
    IF list = <<>> THEN <<>>
    ELSE IF Len(list) = 1 THEN list[1]
    ELSE list[1] \o sep \o Join(Tail(list), sep)

\* The checks the callback of files.map makes on one file: the error it
\* throws, NoError if it throws none.
FileError(file, fileOptions) ==
    LET defaultOptions == Spread(DefaultFileOptions, fileOptions)
        extension == ToLowerCase(LastPiece(file.fileName))
    IN IF defaultOptions.maxFileSize # 0
          /\ file.content.length > defaultOptions.maxFileSize
       THEN [kind |-> "size", fileName |-> file.fileName,
             limit |-> defaultOptions.maxFileSize]
       ELSE IF Has(defaultOptions, "allowedExtensions")
               /\ (extension = <<>>
                   \/ ~Includes(defaultOptions.allowedExtensions, extension))
       THEN [kind |-> "extension", fileName |-> file.fileName,
             allowed |-> Join(defaultOptions.allowedExtensions, <<",", " ">>)]
       ELSE NoError

\* The message the callback of files.map returns for a file.
\* (FileMessageOfMut: substring(0, 49).)
FileMessageOfMut(file) ==
    [role |-> "file", content |-> file.content,
     fileName |-> IF Len(file.fileName) > 50
                  THEN SubSeq(file.fileName, 1, 49) ELSE file.fileName]
FileMessageOf(file) ==
    [role |-> "file", content |-> file.content,
     fileName |-> IF Len(file.fileName) > 50
                  THEN SubSeq(file.fileName, 1, 50) ELSE file.fileName]

\* The files the callback of files.map is run on: all of them, in order.
FilesVisitedMut(files) == IF files = <<>> THEN {} ELSE {1}
FilesVisited(files) == 1..Len(files)

\* createFileMessages: the error of the first file that fails, or the
\* messages of all files.
createFileMessages(files, fileOptions) ==
    LET bad == {i \in FilesVisited(files) : FileError(files[i], fileOptions) # NoError}
    IN IF bad # {}
       THEN [error |-> FileError(files[CHOOSE i \in bad : \A j \in bad : i <= j], fileOptions),
             messages |-> <<>>]
       ELSE [error |-> NoError,
             messages |-> [i \in 1..Len(files) |-> FileMessageOf(files[i])]]

\* ---- operations ----
InitClient ==
    /\ RetryUnused
    /\ StreamUnused
    /\ PairUnused
    /\ UploadUnused
    /\ userConfig \in UserConfigs
    /\ config = constructor(userConfig)
    /\ lastSet = <<>>
    /\ reported = <<>>
    /\ lastOp = NoOp

setWebSearchEnabled(enabled) ==
    /\ config' = SetEnabled(config, enabled)
    /\ lastSet' = <<enabled>>
    /\ reported' = <<>>
    /\ UNCHANGED <<userConfig, lastOp>>
    /\ UNCHANGED outsideClient

isWebSearchEnabled ==
    /\ reported' = <<IsEnabled(config)>>
    /\ UNCHANGED <<userConfig, config, lastSet, lastOp>>
    /\ UNCHANGED outsideClient

\* An entry point that makes a request ends with lastOp = op.
Requested(op) ==
    /\ lastOp' = op
    /\ UNCHANGED <<userConfig, config, lastSet, reported>>
    /\ UNCHANGED outsideClient

\* createChatCompletion called by the application.
ClientCreateChatCompletion(req, response) ==
    Requested(RunCreateChatCompletion(
                 Called("createChatCompletion", req, <<>>, <<>>), req, response))

\* The requests callers pass to createImage and createModeration.
ImageRequests == {[prompt |-> "cat"], [prompt |-> "cat", n |-> 2]}

ModerationRequests == {[input |-> "text"], [input |-> "text", model |-> "m"]}

listModels(response) ==
    Requested(Execute(Called("listModels", <<>>, <<>>, <<>>),
                      "listModels", <<>>, response))

createImage(req, response) ==
    Requested(Execute(Called("createImage", req, <<>>, <<>>),
                      "createImage", req, response))

createModeration(req, response) ==
    Requested(Execute(Called("createModeration", req, <<>>, <<>>),
                      "createModeration", req, response))

\* createChatCompletionStream called by the application.
ClientCreateChatCompletionStream(req) ==
    Requested(RunCreateChatCompletionStream(
                 Called("createChatCompletionStream", req, <<>>, <<>>), req))

createChatCompletionWithWebSearch(req, response) ==
    Requested(RunCreateChatCompletion(
                 CalledWebSearch("createChatCompletionWithWebSearch", req),
                 enhanceRequestWithWebSearch(req), response))

createChatCompletionStreamWithWebSearch(req) ==
    Requested(RunCreateChatCompletionStream(
                 CalledWebSearch("createChatCompletionStreamWithWebSearch", req),
                 enhanceRequestWithWebSearch(req)))

\* requestWithFiles: { ...request, messages: [...fileMessages, ...request.messages] }
\* (WithFilesMut: the file messages are put after the caller's.)
WithFilesMut(req, fileMessages) ==
    Spread(req, [messages |-> req.messages \o fileMessages])
WithFiles(req, fileMessages) ==
    Spread(req, [messages |-> fileMessages \o req.messages])

createChatCompletionWithFiles(req, files, fileOptions, response) ==
    \E call \in {Called("createChatCompletionWithFiles", req, files, fileOptions)} :
    \E fileMessages \in {createFileMessages(files, fileOptions)} :
        Requested(IF fileMessages.error # NoError
                  THEN [call EXCEPT !.outcome = "threw", !.error = fileMessages.error]
                  ELSE RunCreateChatCompletion(
                          call, WithFiles(req, fileMessages.messages), response))

createChatCompletionStreamWithFiles(req, files, fileOptions) ==
    \E call \in {Called("createChatCompletionStreamWithFiles", req, files, fileOptions)} :
    \E fileMessages \in {createFileMessages(files, fileOptions)} :
        Requested(IF fileMessages.error # NoError
                  THEN [call EXCEPT !.outcome = "threw", !.error = fileMessages.error]
                  ELSE RunCreateChatCompletionStream(
                          call, WithFiles(req, fileMessages.messages)))

\* ---- the chat getter ----
\* if (request.stream) in chat.completions.create and createWithWebSearch.
\* (IsStreamRequestMut: the getter always delegates to the non-streaming
\* method.)
IsStreamRequestMut(req) == FALSE
IsStreamRequest(req) == Has(req, "stream") /\ req.stream

\* chat.completions.create(request)
chat_completions_create(req, response) ==
    \E call \in {Called("chat.completions.create", req, <<>>, <<>>)} :
        Requested(IF IsStreamRequest(req)
                  THEN RunCreateChatCompletionStream(call, req)
                  ELSE RunCreateChatCompletion(call, req, response))

\* chat.completions.createWithWebSearch(request)
chat_completions_createWithWebSearch(req, response) ==
    \E call \in {CalledWebSearch("chat.completions.createWithWebSearch", req)} :
        Requested(IF IsStreamRequest(req)
                  THEN RunCreateChatCompletionStream(
                          call, enhanceRequestWithWebSearch(req))
                  ELSE RunCreateChatCompletion(
                          call, enhanceRequestWithWebSearch(req), response))

\* chat.completions.stream(request, options)
chat_completions_stream(req) ==
    Requested(RunCreateChatCompletionStream(
                 Called("chat.completions.stream", req, <<>>, <<>>), req))

\* chat.completions.streamWithWebSearch(request, options)
chat_completions_streamWithWebSearch(req) ==
    Requested(RunCreateChatCompletionStream(
                 CalledWebSearch("chat.completions.streamWithWebSearch", req),
                 enhanceRequestWithWebSearch(req)))

\* chat.completions.streamWithFiles(request, files, streamOptions, fileOptions)
chat_completions_streamWithFiles(req, files, fileOptions) ==
    \E call \in {Called("chat.completions.streamWithFiles", req, files, fileOptions)} :
    \E fileMessages \in {createFileMessages(files, fileOptions)} :
        Requested(IF fileMessages.error # NoError
                  THEN [call EXCEPT !.outcome = "threw", !.error = fileMessages.error]
                  ELSE RunCreateChatCompletionStream(
                          call, WithFiles(req, fileMessages.messages)))

\* ---- the models, images and moderations getters ----
\* models.list()
models_list(response) ==
    Requested(Execute(Called("models.list", <<>>, <<>>, <<>>),
                      "listModels", <<>>, response))

\* images.generate(request)
images_generate(req, response) ==
    Requested(Execute(Called("images.generate", req, <<>>, <<>>),
                      "createImage", req, response))

\* moderations.create(request)
moderations_create(req, response) ==
    Requested(Execute(Called("moderations.create", req, <<>>, <<>>),
                      "createModeration", req, response))

\* The consumer's first next() on the generator of the latest call: the body
\* calls fetch with JSON.stringify(request) as body.
ClientFirstNext ==
    /\ lastOp.outcome = "stream"
    /\ ~lastOp.pulled
    /\ Requested([lastOp EXCEPT
                    !.pulled = TRUE,
                    !.sent = <<[via |-> "fetch", path |-> "/chat/completions",
                                body |-> lastOp.pending]>>])

NextClient ==
    \/ \E enabled \in BOOLEAN : setWebSearchEnabled(enabled)
    \/ isWebSearchEnabled
    \/ \E req \in Requests, response \in Responses :
          ClientCreateChatCompletion(req, response)
    \/ \E response \in Responses : listModels(response)
    \/ \E req \in ImageRequests, response \in Responses : createImage(req, response)
    \/ \E req \in ModerationRequests, response \in Responses :
          createModeration(req, response)
    \/ \E req \in Requests : ClientCreateChatCompletionStream(req)
    \/ \E req \in Requests, response \in Responses :
          createChatCompletionWithWebSearch(req, response)
    \/ \E req \in Requests : createChatCompletionStreamWithWebSearch(req)
    \/ \E req \in FileRequests, files \in FileLists, fileOptions \in FileOptionSets,
          response \in Responses :
          createChatCompletionWithFiles(req, files, fileOptions, response)
    \/ \E req \in FileRequests, files \in FileLists, fileOptions \in FileOptionSets :
          createChatCompletionStreamWithFiles(req, files, fileOptions)
    \/ \E req \in Requests, response \in Responses :
          chat_completions_create(req, response)
    \/ \E req \in Requests, response \in Responses :
          chat_completions_createWithWebSearch(req, response)
    \/ \E req \in Requests : chat_completions_stream(req)
    \/ \E req \in Requests : chat_completions_streamWithWebSearch(req)
    \/ \E req \in FileRequests, files \in FileLists, fileOptions \in FileOptionSets :
          chat_completions_streamWithFiles(req, files, fileOptions)
    \/ \E response \in Responses : models_list(response)
    \/ \E req \in ImageRequests, response \in Responses : images_generate(req, response)
    \/ \E req \in ModerationRequests, response \in Responses :
          moderations_create(req, response)
    \/ ClientFirstNext

SpecClient == InitClient /\ [][NextClient]_vars

\* ------------------------------------------------------------------------
\* Properties of the client object
\* ------------------------------------------------------------------------
WebSearchOps ==
    {"createChatCompletionWithWebSearch", "createChatCompletionStreamWithWebSearch"}

FileOps == {"createChatCompletionWithFiles", "createChatCompletionStreamWithFiles"}

\* Request r has the field webSearch with value v.
HasWebSearchValue(r, v) == Has(r, "webSearch") /\ r.webSearch = v

\* The requests the latest call handed to its executor and to the transport.
RequestsOut ==
    {lastOp.executed[i].request : i \in 1..Len(lastOp.executed)}
        \cup {lastOp.sent[i].body : i \in 1..Len(lastOp.sent)}

\* C17: a web-search entry point called with a request that has webSearch
\* (true or false) hands its executor a request with the same webSearch
\* value, and every request the call sends has that value, whatever the
\* client's toggle is.
C17_ExplicitWebSearchKept ==
    (lastOp.op \in WebSearchOps /\ Has(lastOp.request, "webSearch"))
        => /\ Len(lastOp.executed) = 1
           /\ \A r \in RequestsOut : HasWebSearchValue(r, lastOp.request.webSearch)

C17_Witness ==
    /\ lastOp.op = "createChatCompletionWithWebSearch"
    /\ HasWebSearchValue(lastOp.request, FALSE)
    /\ IsEnabled(config)
    /\ lastOp.outcome = "returned"
    /\ Len(lastOp.sent) = 1
    /\ HasWebSearchValue(lastOp.sent[1].body, FALSE)

\* The toggle the caller constructed the client with: false by default.
ConstructedEnabled ==
    IF Has(userConfig, "webSearch") /\ Has(userConfig.webSearch, "enabled")
    THEN userConfig.webSearch.enabled ELSE FALSE

\* The toggle after the setWebSearchEnabled calls whose latest argument is
\* set (<<>> when there was no call).
ToggleAfter(set) == IF set # <<>> THEN set[1] ELSE ConstructedEnabled

C19_ConfigFrame ==
    /\ [](/\ DOMAIN config = DOMAIN constructor(userConfig)
          /\ \A k \in {"apiKey", "baseURL", "provider", "timeout", "maxRetries"} :
                config[k] = constructor(userConfig)[k]
          /\ DOMAIN config.webSearch = DOMAIN constructor(userConfig).webSearch
          /\ \A k \in {"maxResults", "includeContent"} :
                config.webSearch[k] = constructor(userConfig).webSearch[k])
    /\ [][config' # config
            => \E enabled \in BOOLEAN : setWebSearchEnabled(enabled)]_vars

C19_Witness ==
    /\ userConfig.apiKey = "key"
    /\ Has(userConfig, "timeout")
    /\ config.timeout = 60000
    /\ config.webSearch.maxResults = 10
    /\ ~config.webSearch.includeContent
    /\ ~config.webSearch.enabled
    /\ lastSet = <<FALSE>>
    /\ lastOp.op \in FileOps
    /\ lastOp.pulled

\* C20: when a file of a call of createChatCompletionWithFiles or
\* createChatCompletionStreamWithFiles fails the size or the extension check,
\* the call has failed with a validation error, no executor was called, no
\* generator was returned and nothing was sent.
C20_FilesValidatedBeforeTransport ==
    (/\ lastOp.op \in FileOps
     /\ \E i \in 1..Len(lastOp.files) :
           FileError(lastOp.files[i], lastOp.fileOptions) # NoError)
        => /\ lastOp.outcome = "threw"
           /\ lastOp.error.kind \in {"size", "extension"}
           /\ lastOp.executed = <<>>
           /\ lastOp.pending = <<>>
           /\ lastOp.sent = <<>>

C20_Witness ==
    /\ lastOp.op = "createChatCompletionStreamWithFiles"
    /\ lastOp.files = <<FileA, FileB>>
    /\ lastOp.fileOptions = [maxFileSize |-> 3]
    /\ lastOp.outcome = "threw"
    /\ lastOp.error.kind = "size"
    /\ lastOp.sent = <<>>

\* Every file of the latest call passes the size and the extension check.
FilesValid ==
    \A i \in 1..Len(lastOp.files) :
        FileError(lastOp.files[i], lastOp.fileOptions) = NoError

\* C21: when every file of a call of a file entry point is valid, the request
\* handed to the executor, and every request sent, has as messages one
\* file-role message per input file, in input order and with that file's
\* content, followed by the caller's messages in their order and unchanged.
C21_FileMessagesPrepended ==
    (lastOp.op \in FileOps /\ FilesValid)
        => /\ Len(lastOp.executed) = 1
           /\ \A r \in RequestsOut :
                 LET n == Len(lastOp.files) IN
                 /\ Len(r.messages) = n + Len(lastOp.request.messages)
                 /\ \A i \in 1..n :
                       /\ r.messages[i].role = "file"
                       /\ r.messages[i].content = lastOp.files[i].content
                 /\ \A j \in 1..Len(lastOp.request.messages) :
                       r.messages[n + j] = lastOp.request.messages[j]

C21_Witness ==
    /\ lastOp.op = "createChatCompletionWithFiles"
    /\ lastOp.files = <<FileB, FileA>>
    /\ lastOp.fileOptions = <<>>
    /\ lastOp.outcome = "returned"
    /\ Len(lastOp.sent) = 1
    /\ Len(lastOp.sent[1].body.messages) = 3
    /\ lastOp.sent[1].body.messages[1].content.id = "B"
    /\ lastOp.sent[1].body.messages[3].role = "user"

\* C25: the base URL of the constructed client is the OpenAI endpoint when
\* the caller gives provider openai and no baseURL, the caller's baseURL
\* when the caller gives one together with a provider other than the default
\* one (llm.vin), and the default endpoint when the caller gives neither;
\* timeout and maxRetries are the caller's, 30000 and 3 when not given.
C25_BaseURLSelection ==
    /\ (Has(userConfig, "provider") /\ userConfig.provider = "openai"
          /\ ~Has(userConfig, "baseURL"))
         => config.baseURL = "https://api.openai.com/v1"
    /\ (Has(userConfig, "baseURL") /\ Has(userConfig, "provider")
          /\ userConfig.provider # "llm.vin")
         => config.baseURL = userConfig.baseURL
    /\ (~Has(userConfig, "provider") /\ ~Has(userConfig, "baseURL"))
         => config.baseURL = "https://api.llm.vin/v1"
    /\ config.timeout = (IF Has(userConfig, "timeout") THEN userConfig.timeout ELSE 30000)
    /\ config.maxRetries =
          (IF Has(userConfig, "maxRetries") THEN userConfig.maxRetries ELSE 3)

SelectingOps == {"chat.completions.create", "chat.completions.createWithWebSearch"}

\* C26: a call of chat.completions.create or createWithWebSearch never
\* fails; with stream = true in the request it is served by
\* createChatCompletionStream, returns the chunk sequence and sends nothing
\* but one fetch request (with stream = true, when the sequence is first
\* pulled); without stream = true it is served by createChatCompletion and
\* sends exactly one buffered request and no fetch request.
C26_StreamFieldSelects ==
    lastOp.op \in SelectingOps
        => /\ lastOp.outcome # "threw"
           /\ Len(lastOp.executed) = 1
           /\ IF Has(lastOp.request, "stream") /\ lastOp.request.stream
              THEN /\ lastOp.outcome = "stream"
                   /\ lastOp.executed[1].executor = "createChatCompletionStream"
                   /\ Len(lastOp.sent) = (IF lastOp.pulled THEN 1 ELSE 0)
                   /\ \A i \in 1..Len(lastOp.sent) :
                         /\ lastOp.sent[i].via = "fetch"
                         /\ lastOp.sent[i].body.stream
              ELSE /\ lastOp.outcome = "returned"
                   /\ lastOp.executed[1].executor = "createChatCompletion"
                   /\ Len(lastOp.sent) = 1
                   /\ lastOp.sent[1].via = "post"

C26_Witness ==
    /\ lastOp.op = "chat.completions.createWithWebSearch"
    /\ Has(lastOp.request, "stream")
    /\ lastOp.request.stream
    /\ lastOp.outcome = "stream"
    /\ lastOp.pulled
    /\ Len(lastOp.sent) = 1
    /\ lastOp.sent[1].via = "fetch"

\* The non-streaming operations, direct and namespaced, and the endpoint of
\* each.
ChatOps == {"createChatCompletion", "chat.completions.create"}
ModelsOps == {"listModels", "models.list"}
ImageOps == {"createImage", "images.generate"}
ModerationOps == {"createModeration", "moderations.create"}

OwnEndpoint(op) ==
    CASE op \in ChatOps -> [via |-> "post", path |-> "/chat/completions"]
      [] op \in ModelsOps -> [via |-> "get", path |-> "/models"]
      [] op \in ImageOps -> [via |-> "post", path |-> "/images/generations"]
      [] op \in ModerationOps -> [via |-> "post", path |-> "/moderations"]

\* C27: a call of a non-streaming operation (a chat request without stream =
\* true), made directly or through the namespaced form, and answered with a
\* 2xx response, has sent exactly one request, to the operation's own
\* endpoint and with the caller's request as body (none for the models
\* list), and has returned the data of the response; so the two forms of an
\* operation are told apart by nothing that is sent or returned.
C27_OneCallOwnEndpoint ==
    (/\ lastOp.op \in ChatOps \cup ModelsOps \cup ImageOps \cup ModerationOps
     /\ ~(Has(lastOp.request, "stream") /\ lastOp.request.stream))
        => /\ lastOp.outcome = "returned"
           /\ Len(lastOp.sent) = 1
           /\ lastOp.sent[1].via = OwnEndpoint(lastOp.op).via
           /\ lastOp.sent[1].path = OwnEndpoint(lastOp.op).path
           /\ lastOp.sent[1].body = lastOp.request
           /\ lastOp.response \in Responses
           /\ lastOp.returned = lastOp.response.data

C27_Witness ==
    /\ lastOp.op = "moderations.create"
    /\ lastOp.request = [input |-> "text", model |-> "m"]
    /\ lastOp.outcome = "returned"
    /\ lastOp.sent = <<[via |-> "post", path |-> "/moderations",
                        body |-> [input |-> "text", model |-> "m"]]>>
    /\ lastOp.response.data = "r2"
    /\ lastOp.returned = "r2"

FileStreamOps ==
    {"createChatCompletionStreamWithFiles", "chat.completions.streamWithFiles"}

\* The request bodies of a call that took the streaming path: the body the
\* generator holds and the bodies sent.
StreamBodies ==
    {lastOp.pending} \cup {lastOp.sent[i].body : i \in 1..Len(lastOp.sent)}

\* C32: a call that takes the streaming path (createChatCompletionStream,
\* chat.completions.stream, the web-search and file streaming variants, and
\* the create forms given stream = true) holds and sends a body with
\* stream = true, whether the caller's request had stream absent, false or
\* true; every other field of the caller's request is in the body with the
\* caller's value (in the file variants the caller's messages are the end
\* of the messages sent, after the file messages); the body has no field the
\* caller's request lacks other than stream and an added webSearch; and
\* nothing is sent before the first pull, which sends that body by fetch to
\* the chat endpoint.
C32_StreamForcedTrue ==
    lastOp.outcome = "stream"
        => /\ \A body \in StreamBodies :
                 /\ Has(body, "stream") /\ body.stream = TRUE
                 /\ DOMAIN lastOp.request \subseteq DOMAIN body
                 /\ DOMAIN body \subseteq DOMAIN lastOp.request \cup {"stream", "webSearch"}
                 /\ \A k \in DOMAIN lastOp.request \ {"stream"} :
                       IF k = "messages" /\ lastOp.op \in FileStreamOps
                       THEN IsSuffix(lastOp.request.messages, body.messages)
                       ELSE body[k] = lastOp.request[k]
           /\ lastOp.sent = IF lastOp.pulled
                            THEN <<[via |-> "fetch", path |-> "/chat/completions",
                                    body |-> lastOp.pending]>>
                            ELSE <<>>

C32_Witness ==
    /\ lastOp.op = "chat.completions.stream"
    /\ lastOp.request = Spread(BaseRequest, [stream |-> FALSE, webSearch |-> FALSE])
    /\ lastOp.pulled
    /\ Len(lastOp.sent) = 1
    /\ lastOp.sent[1].body = Spread(BaseRequest, [stream |-> TRUE, webSearch |-> FALSE])

\* The entry points that do not augment the request with web search.
PlainOps ==
    {"createChatCompletion", "createChatCompletionStream",
     "createChatCompletionWithFiles", "createChatCompletionStreamWithFiles",
     "chat.completions.create", "chat.completions.stream",
     "chat.completions.streamWithFiles"}

AugmentingOps ==
    WebSearchOps \cup {"chat.completions.createWithWebSearch",
                       "chat.completions.streamWithWebSearch"}

\* Requests a and b agree on webSearch: both lack it or both have the same
\* value.
SameWebSearch(a, b) ==
    /\ Has(a, "webSearch") <=> Has(b, "webSearch")
    /\ Has(a, "webSearch") => a.webSearch = b.webSearch

RECURSIVE Repeat(_, _)
Repeat(c, n) == IF n = 0 THEN <<>> ELSE <<c>> \o Repeat(c, n - 1)

\* File names: with an upper-case extension, with two dots, without dot,
\* ending in a dot, and of 50, 51 and 60 characters.
Name50 == Repeat("m", 47) \o <<".", "m", "d">>
Name51 == Repeat("n", 47) \o <<".", "t", "x", "t">>
Name60 == Repeat("p", 57) \o <<".", "p", "y">>

\* The files callers pass; the content lengths lie on both sides of the
\* limits of UploadOptionSets and of the default limit.
UploadPool ==
    { FileA,
      FileB,
      [fileName |-> <<"c", ".", "t", "a", "r", ".", "m", "d">>,
       content |-> [id |-> "C", length |-> 0]],
      [fileName |-> <<"R", "E", "A", "D", "M", "E">>,
       content |-> [id |-> "R", length |-> 3]],
      [fileName |-> <<"d", ".">>, content |-> [id |-> "D", length |-> 1]],
      [fileName |-> Name50, content |-> [id |-> "M", length |-> 10 * 1024 * 1024]],
      [fileName |-> Name51, content |-> [id |-> "N", length |-> 10 * 1024 * 1024 + 1]],
      [fileName |-> Name60, content |-> [id |-> "P", length |-> 2]] }

UploadLists == SeqsUpTo(UploadPool, MaxFiles)

\* The FileUploadOptions callers pass.
UploadOptionSets ==
    FileOptionSets \cup
    { [maxFileSize |-> 0],
      [maxFileSize |-> 2],
      [maxFileSize |-> 4],
      [allowedExtensions |-> << <<"T", "X", "T">> >>],
      [maxFileSize |-> 3, allowedExtensions |-> << <<"t", "x", "t">>, <<"m", "d">> >>] }

InitUpload ==
    /\ RetryUnused
    /\ StreamUnused
    /\ PairUnused
    /\ ClientUnused
    /\ upload \in [files : UploadLists, fileOptions : UploadOptionSets]
    /\ produced = <<>>

\* client.createFileMessages(files, options), also files.createMessages.
ClientCreateFileMessages ==
    /\ produced = <<>>
    /\ produced' = createFileMessages(upload.files, upload.fileOptions)
    /\ UNCHANGED upload
    /\ UNCHANGED outsideUpload

NextUpload == ClientCreateFileMessages

SpecUpload == InitUpload /\ [][NextUpload]_vars

\* ------------------------------------------------------------------------
\* Properties of createFileMessages
\* ------------------------------------------------------------------------
\* The configured limit: maxFileSize, 10 MiB when the option is absent.
SizeLimit ==
    IF Has(upload.fileOptions, "maxFileSize")
    THEN upload.fileOptions.maxFileSize ELSE 10 * 1024 * 1024

\* The files of the call whose content is longer than the limit.
Oversize == {i \in 1..Len(upload.files) : upload.files[i].content.length > SizeLimit}

First(S) == CHOOSE i \in S : \A j \in S : i <= j

\* C22: for every maxFileSize >= 0 (10 MiB when absent), a call without
\* allowedExtensions throws the size error, naming the first file that is
\* too long and the limit, if and only if some file's content is strictly
\* longer than the limit; otherwise every file is accepted.
C22_SizeLimit ==
    (produced # <<>> /\ ~Has(upload.fileOptions, "allowedExtensions"))
        => /\ (produced.error.kind = "size") <=> (Oversize # {})
           /\ Oversize # {}
                => /\ produced.error.fileName = upload.files[First(Oversize)].fileName
                   /\ produced.error.limit = SizeLimit
           /\ Oversize = {}
                => /\ produced.error = NoError
                   /\ Len(produced.messages) = Len(upload.files)

\* The extension of a file name, the text after its final '.', is one of the
\* allowed extensions, upper and lower case taken as equal; a name without
\* '.' has no extension.
ExtensionAllowed(fileName, allowed) ==
    /\ \E i \in 1..Len(fileName) : fileName[i] = "."
    /\ \E k \in 1..Len(allowed) :
          ToLowerCase(allowed[k]) = ToLowerCase(LastPiece(fileName))

\* The files of the call whose extension is not allowed.
Unsupported ==
    {i \in 1..Len(upload.files) :
        ~ExtensionAllowed(upload.files[i].fileName, upload.fileOptions.allowedExtensions)}

\* C23: a call with allowedExtensions, none of whose files is too long,
\* throws the extension error, naming the first file whose extension is not
\* allowed and listing the allowed extensions joined by ', ', if and only if
\* the extension of some file is not in allowedExtensions, case being
\* ignored; otherwise every file is accepted.
C23_ExtensionAllowed ==
    (produced # <<>> /\ Has(upload.fileOptions, "allowedExtensions") /\ Oversize = {})
        => /\ (produced.error.kind = "extension") <=> (Unsupported # {})
           /\ Unsupported # {}
                => /\ produced.error.fileName = upload.files[First(Unsupported)].fileName
                   /\ produced.error.allowed =
                         Join(upload.fileOptions.allowedExtensions, <<",", " ">>)
           /\ Unsupported = {}
                => /\ produced.error = NoError
                   /\ Len(produced.messages) = Len(upload.files)

\* C24: the fileName of the message produced for a file is the file's name
\* when that has at most 50 characters and its first 50 characters when it
\* has more, so it never has more than 50; and a call with the default
\* options whose contents are within the limit throws nothing, however long
\* the names are.
C24_NameTruncated ==
    produced # <<>>
        => /\ produced.error = NoError
                => \A i \in 1..Len(upload.files) :
                      LET name == upload.files[i].fileName
                          out == produced.messages[i].fileName
                      IN /\ Len(out) <= 50
                         /\ Len(name) <= 50 => out = name
                         /\ Len(name) > 50 => out = SubSeq(name, 1, 50)
           /\ (upload.fileOptions = <<>> /\ Oversize = {})
                => (produced.error = NoError
                      /\ Len(produced.messages) = Len(upload.files))

C24_Witness ==
    /\ Len(upload.files) = 2
    /\ upload.files[1].fileName = Name60
    /\ upload.files[2].fileName = Name50
    /\ produced # <<>>
    /\ produced.error = NoError
    /\ produced.messages[1].fileName = Repeat("p", 50)
    /\ produced.messages[2].fileName = Name50

====
